---- MODULE Spec2Model ----
(***************************************************************************)
(* Visual Regex Builder (src/main.cpp, the "Pro Edition" translation unit  *)
(* that starts at line 1299): the node graph, its linearization, the       *)
(* selection / edit session, the undo-redo history and the clipboard.      *)
(*                                                                         *)
(* std::string values are sequences of one-character strings, so that      *)
(* push_back / pop_back / operator+= are Append / Front / \o.              *)
(***************************************************************************)
EXTENDS Integers, Sequences, FiniteSets, TLC

VARIABLES
    nodes,                  \* std::vector<Node> nodes
    connections,            \* std::vector<Connection> connections
    nextNodeId,             \* int nextNodeId
    undoStack,              \* std::vector<AppState> undoStack
    redoStack,              \* std::vector<AppState> redoStack
    clipboard,              \* ClipboardData clipboard
    editingNodeId,          \* int editingNodeId (local of main)
    isCreatingConnection,   \* bool isCreatingConnection
    connectionStartNodeId,  \* int connectionStartNodeId
    isDraggingNodes,        \* bool isDraggingNodes
    isBoxSelecting,         \* bool isBoxSelecting
    boxSelectionStart,      \* Vector2 boxSelectionStart
    regStr,                 \* std::string regStr = GenerateRegex() (local of main)
    phase,                  \* "session": the frame loop runs; "input"/"done"/"again": before and after calls of a pure function
    lastOp,                 \* history variable: the handler that ran last
    preGraph,               \* history variable: the graph before the last recorded mutation (or before the last Undo)
    inUnit,                 \* history variable: TRUE from a recorded mutation until the next Undo/Redo
    everIssued,             \* history variable: one more than the largest node id ever allocated
    saveCount,              \* history variable: the number of SaveState calls so far
    stepCount,              \* history variable: the number of handlers run so far, counted up to StepCap
    showPlayground,         \* bool showPlayground
    isDebugging,            \* bool isDebugging
    playgroundText,         \* std::string playgroundText
    currentDebugMatches,    \* std::vector<DebugMatch> currentDebugMatches
    currentDebugMatchIndex, \* int currentDebugMatchIndex
    selectedNodeId,         \* int selectedNodeId (the prototype, src/unnamed/part_000)
    mouseOffset             \* Vector2 mouseOffset (the prototype)

vars == <<nodes, connections, nextNodeId, undoStack, redoStack, clipboard,
          editingNodeId, isCreatingConnection, connectionStartNodeId,
          isDraggingNodes, isBoxSelecting, boxSelectionStart, regStr, phase,
          lastOp, preGraph, inUnit, everIssued, saveCount, stepCount,
          showPlayground, isDebugging, playgroundText, currentDebugMatches,
          currentDebugMatchIndex, selectedNodeId, mouseOffset>>

graphVars == <<nodes, connections, nextNodeId>>
historyVars == <<undoStack, redoStack>>
gestureVars == <<isCreatingConnection, connectionStartNodeId, isDraggingNodes,
                 isBoxSelecting, boxSelectionStart>>
ghostVars == <<lastOp, preGraph, inUnit, everIssued, saveCount, stepCount>>
playgroundVars == <<showPlayground, isDebugging, playgroundText, currentDebugMatches,
                    currentDebugMatchIndex>>
protoVars == <<selectedNodeId, mouseOffset>>

-----------------------------------------------------------------------------
(* Bounds of the model and constants of the program *)

\* SaveState keeps at most this many snapshots (undoStack.size() > 50).
HistoryCap == 50
\* GenerateRegex's loop guard (safety < 100).
SafetyLimit == 100
\* connectionStartNodeId / editingNodeId value meaning "none".
NoNode == -1
\* Node rectangle size set by AddNode.
NodeW == 160
NodeH == 60

\* Handlers that allocate node ids stop when nextNodeId reaches this.
MaxNextId == 3
\* A session runs at most this many handlers.
MaxSteps == 5
\* Number of toolbar buttons (out of ButtonOrder) the user presses.
NumAddKinds == 2
\* Number of template buttons (out of TemplateOrder) the user presses.
NumTemplates == 1
\* Number of mouse positions (out of MouseOrder) the user points at.
NumMousePts == 2
\* A text edit stops growing a fragment at this length.
MaxTextLen == 4
\* The history session records at most this many mutations.
HistMaxSaves == 51
\* The history session explores Undo and Redo from this many recorded mutations on.
HistUndoFrom == 50
\* The graphs GenerateRegex is called on have at most this many nodes and connections.
LinMaxNodes == 2
LinMaxConns == 2
\* Drags keep node coordinates within 0..CanvasMax.
CanvasMax == 1200
\* The graphs of the selection session have at most this many nodes.
SelMaxNodes == 3
\* Number of mouse positions (out of SelPtOrder) of the selection session.
NumSelPts == 3
\* The selection session runs at most this many handlers.
SelMaxSteps == 3
\* The graphs of the clipboard session have at most this many nodes and connections.
ClipMaxNodes == 3
ClipMaxConns == 2
\* The clipboard session runs at most this many handlers.
ClipMaxSteps == 3
\* The template session runs at most this many handlers.
TplMaxSteps == 2
\* The graphs of the debugging session have at most this many nodes.
DbgMaxNodes == 2
\* The debugging session runs at most this many handlers.
DbgMaxSteps == 5
\* Project files hold at most this many nodes.
LoadMaxNodes == 2
\* The loading session runs at most this many handlers.
LoadMaxSteps == 3
\* The text-edit session runs at most this many handlers.
EditMaxSteps == 6
\* The chains of the long-chain family have at most this many nodes.
ChainMax == 103

Min(a, b) == IF a < b THEN a ELSE b
Max(a, b) == IF a > b THEN a ELSE b
Abs(a) == IF a < 0 THEN -a ELSE a
Front(s) == SubSeq(s, 1, Len(s) - 1)
Last(s) == s[Len(s)]
Range(s) == {s[i] : i \in 1..Len(s)}

RECURSIVE SelectSeq2(_, _, _)
\* The subsequence of s at the indexes i for which keep[i] holds.
SelectSeq2(s, keep, i) ==
    IF i > Len(s) THEN <<>>
    ELSE (IF keep[i] THEN <<s[i]>> ELSE <<>>) \o SelectSeq2(s, keep, i + 1)

-----------------------------------------------------------------------------
(* Node kinds and their defaults: enum NodeType and the switch of AddNode *)

NodeTypes == {"NODE_START", "NODE_END", "NODE_TEXT", "NODE_DIGIT", "NODE_WHITESPACE",
              "NODE_ANY", "NODE_WORD", "NODE_SYMBOL", "NODE_CUSTOM",
              "NODE_NOT_DIGIT", "NODE_NOT_WHITESPACE", "NODE_NOT_WORD",
              "NODE_ZERO_OR_MORE", "NODE_ONE_OR_MORE", "NODE_OPTIONAL",
              "NODE_GROUP_START", "NODE_GROUP_END", "NODE_OR"}

DefaultRegex(type) ==
    CASE type = "NODE_CUSTOM"         -> <<"a", "b", "c">>
      [] type = "NODE_START"          -> <<"^">>
      [] type = "NODE_END"            -> <<"$">>
      [] type = "NODE_TEXT"           -> <<"[", "a", "-", "z", "A", "-", "Z", "]", "+">>
      [] type = "NODE_DIGIT"          -> <<"\\", "d">>
      [] type = "NODE_WHITESPACE"     -> <<"\\", "s">>
      [] type = "NODE_ANY"            -> <<".">>
      [] type = "NODE_WORD"           -> <<"\\", "w">>
      [] type = "NODE_SYMBOL"         -> <<"@">>
      [] type = "NODE_NOT_DIGIT"      -> <<"\\", "D">>
      [] type = "NODE_NOT_WHITESPACE" -> <<"\\", "S">>
      [] type = "NODE_NOT_WORD"       -> <<"\\", "W">>
      [] type = "NODE_ZERO_OR_MORE"   -> <<"*">>
      [] type = "NODE_ONE_OR_MORE"    -> <<"+">>
      [] type = "NODE_OPTIONAL"       -> <<"?">>
      [] type = "NODE_GROUP_START"    -> <<"(">>
      [] type = "NODE_GROUP_END"      -> <<")">>
      [] type = "NODE_OR"             -> <<"|">>

DefaultTitle(type) ==
    CASE type = "NODE_CUSTOM"         -> <<"C","u","s","t","o","m"," ","T","e","x","t">>
      [] type = "NODE_START"          -> <<"S","t","a","r","t"," ","o","f"," ","L","i","n","e">>
      [] type = "NODE_END"            -> <<"E","n","d"," ","o","f"," ","L","i","n","e">>
      [] type = "NODE_TEXT"           -> <<"L","e","t","t","e","r","s">>
      [] type = "NODE_DIGIT"          -> <<"N","u","m","b","e","r","s">>
      [] type = "NODE_WHITESPACE"     -> <<"W","h","i","t","e","s","p","a","c","e">>
      [] type = "NODE_ANY"            -> <<"A","n","y"," ","C","h","a","r">>
      [] type = "NODE_WORD"           -> <<"W","o","r","d"," ","C","h","a","r","s">>
      [] type = "NODE_SYMBOL"         -> <<"S","y","m","b","o","l"," ","@">>
      [] type = "NODE_NOT_DIGIT"      -> <<"N","o","n","-","N","u","m","b","e","r">>
      [] type = "NODE_NOT_WHITESPACE" -> <<"N","o","n","-","S","p","a","c","e">>
      [] type = "NODE_NOT_WORD"       -> <<"N","o","n","-","W","o","r","d">>
      [] type = "NODE_ZERO_OR_MORE"   -> <<"R","e","p","e","a","t"," ","(","0","+",")">>
      [] type = "NODE_ONE_OR_MORE"    -> <<"R","e","p","e","a","t"," ","(","1","+",")">>
      [] type = "NODE_OPTIONAL"       -> <<"O","p","t","i","o","n","a","l">>
      [] type = "NODE_GROUP_START"    -> <<"S","t","a","r","t"," ","G","r","o","u","p">>
      [] type = "NODE_GROUP_END"      -> <<"E","n","d"," ","G","r","o","u","p">>
      [] type = "NODE_OR"             -> <<"O","R"," ","(","E","i","t","h","e","r",")">>

\* Node::dragOffset.  AddNode leaves it uninitialised (set = FALSE); a left press
\* on a node sets it for the selected nodes.
UnsetOffset == [set |-> FALSE, v |-> <<0, 0>>]
SetOffset(x, y) == [set |-> TRUE, v |-> <<x, y>>]

\* A variant of AfterAlloc that does not advance the counter.
NoIncrement(next) == next

\* The id AddNode gives the new node, and nextNodeId after it (n.id = nextNodeId++).
AllocId(next) == next
AfterAlloc(next) == next + 1

\* The Node AddNode builds.
NewNode(id, type, x, y) ==
    [id |-> id, type |-> type, title |-> DefaultTitle(type),
     regexValue |-> DefaultRegex(type), pos |-> <<x, y>>,
     isEditing |-> FALSE, selected |-> FALSE, dragOffset |-> UnsetOffset]

\* AddNode(type, x, y) on the node list.
AddNodeTo(ns, next, type, x, y) == Append(ns, NewNode(AllocId(next), type, x, y))

NodeIds(ns) == {ns[i].id : i \in 1..Len(ns)}

-----------------------------------------------------------------------------
(* History: struct AppState, SaveState, Undo, Redo *)

AppState(ns, cs, next) == [nodes |-> ns, connections |-> cs, nextNodeId |-> next]

\* A variant of Snapshot that leaves the connections out of the copy.
SnapshotNoConnections(ns, cs, next) == AppState(ns, <<>>, next)

\* The AppState local that SaveState, Undo and Redo fill field by field from
\* the live graph.
Snapshot(ns, cs, next) == AppState(ns, cs, next)

\* A variant of PushUndo that never evicts.
PushUndoUncapped(stack, st) == Append(stack, st)

\* A variant of PushUndo that evicts the newest snapshot instead of the oldest.
PushUndoDropNewest(stack, st) ==
    LET pushed == Append(stack, st)
    IN  IF Len(pushed) > HistoryCap THEN Front(pushed) ELSE pushed

\* undoStack after SaveState pushed st: push_back, then erase(begin()) above the cap.
PushUndo(stack, st) ==
    LET pushed == Append(stack, st)
    IN  IF Len(pushed) > HistoryCap THEN Tail(pushed) ELSE pushed

\* A variant of ClearRedo that keeps the redo stack.
KeepRedo(stack) == stack

\* redoStack after SaveState: redoStack.clear().
ClearRedo(stack) == <<>>

\* The stack Undo (Redo) pushes the current state on: push_back with no cap.
PushOpposite(stack, cur) == Append(stack, cur)

\* A variant of PopBack that drops the oldest snapshot.
PopOldest(stack) == Tail(stack)

\* The stack Undo (Redo) pops: pop_back.
PopBack(stack) == Front(stack)

\* nextNodeId after Undo (Redo) restored snapshot st: nextNodeId = prev.nextNodeId.
RestoredNextId(st, cur) == st.nextNodeId


\* The graph content a snapshot is compared by: id, kind, fragment, label and
\* position of every node (not the volatile selected / isEditing / dragOffset),
\* the connections in order, and nextNodeId.
NodeContent(n) == [id |-> n.id, type |-> n.type, title |-> n.title,
                   regexValue |-> n.regexValue, pos |-> n.pos]
Content(st) == [nodes |-> [i \in 1..Len(st.nodes) |-> NodeContent(st.nodes[i])],
                connections |-> st.connections, nextNodeId |-> st.nextNodeId]

\* The live graph.
Current == [nodes |-> nodes, connections |-> connections, nextNodeId |-> nextNodeId]

-----------------------------------------------------------------------------
(* Hit testing (raylib CheckCollisionPointRec / CheckCollisionRecs) *)

PointInRect(m, n) ==
    /\ m[1] >= n.pos[1] /\ m[1] < n.pos[1] + NodeW
    /\ m[2] >= n.pos[2] /\ m[2] < n.pos[2] + NodeH

\* Indexes of the nodes under mouse position m.
HitIndexes(ns, m) == {i \in 1..Len(ns) : PointInRect(m, ns[i])}

\* Left press scans nodes from the last to the first: the topmost node under m (0: none).
TopHit(ns, m) ==
    IF HitIndexes(ns, m) = {} THEN 0
    ELSE CHOOSE i \in HitIndexes(ns, m) : \A j \in HitIndexes(ns, m) : j <= i

\* Right press / release scan nodes from the first to the last.
FirstHit(ns, m) ==
    IF HitIndexes(ns, m) = {} THEN 0
    ELSE CHOOSE i \in HitIndexes(ns, m) : \A j \in HitIndexes(ns, m) : i <= j

-----------------------------------------------------------------------------
(* Linearizer: GenerateRegex *)

\* Index of the first node of ns whose id is id (0: none).
FirstWithId(ns, id) ==
    IF \E i \in 1..Len(ns) : ns[i].id = id
    THEN CHOOSE i \in 1..Len(ns) : ns[i].id = id /\ \A j \in 1..(i - 1) : ns[j].id # id
    ELSE 0

\* A variant of FirstFrom that takes the last connection leaving node id.
LastFrom(cs, id) ==
    IF \E k \in 1..Len(cs) : cs[k].fromNodeId = id
    THEN CHOOSE k \in 1..Len(cs) :
            cs[k].fromNodeId = id /\ \A j \in (k + 1)..Len(cs) : cs[j].fromNodeId # id
    ELSE 0

\* Index of the first connection of cs leaving node id (0: none).
FirstFrom(cs, id) ==
    IF \E k \in 1..Len(cs) : cs[k].fromNodeId = id
    THEN CHOOSE k \in 1..Len(cs) :
            cs[k].fromNodeId = id /\ \A j \in 1..(k - 1) : cs[j].fromNodeId # id
    ELSE 0

\* The first loop: the first node of kind NODE_START (0: none).
FirstStart(ns) ==
    IF \E i \in 1..Len(ns) : ns[i].type = "NODE_START"
    THEN CHOOSE i \in 1..Len(ns) :
            ns[i].type = "NODE_START" /\ \A j \in 1..(i - 1) : ns[j].type # "NODE_START"
    ELSE 0

\* The fallback loop: the first node no connection points at (0: none).
HasInput(cs, id) == \E k \in 1..Len(cs) : cs[k].toNodeId = id
FirstRoot(ns, cs) ==
    IF \E i \in 1..Len(ns) : ~HasInput(cs, ns[i].id)
    THEN CHOOSE i \in 1..Len(ns) :
            ~HasInput(cs, ns[i].id) /\ \A j \in 1..(i - 1) : HasInput(cs, ns[j].id)
    ELSE 0

\* A variant of EntryIndex that falls back on the first node of the list.
EntryOrFirst(ns, cs) ==
    IF FirstStart(ns) # 0 THEN FirstStart(ns)
    ELSE IF FirstRoot(ns, cs) # 0 THEN FirstRoot(ns, cs)
    ELSE IF ns = <<>> THEN 0 ELSE 1

\* Index of the entry node (0: currentNodeId stays -1).
EntryIndex(ns, cs) == IF FirstStart(ns) # 0 THEN FirstStart(ns) ELSE FirstRoot(ns, cs)

\* What the inner loop appends for the node id: the fragment of the first node
\* with that id, nothing when no node has it.
Emit(ns, id) == IF FirstWithId(ns, id) = 0 THEN <<>> ELSE ns[FirstWithId(ns, id)].regexValue

\* A variant of LoopGuard that counts the entry node among the SafetyLimit.
LoopGuardCountsEntry(safety) == safety < SafetyLimit - 1

\* A variant of LoopGuard that allows one more pass.
LoopGuardInclusive(safety) == safety <= SafetyLimit

\* The loop guard of the walk: foundNext is decided in the body, safety here.
LoopGuard(safety) == safety < SafetyLimit

\* currentNodeId after one pass of the loop body from cur.
NextId(cs, cur) == cs[FirstFrom(cs, cur)].toNodeId

RECURSIVE Walk(_, _, _, _)
\* The while loop from currentNodeId cur with the counter at safety: what it
\* appends to ss.
Walk(ns, cs, cur, safety) ==
    IF ~LoopGuard(safety) \/ FirstFrom(cs, cur) = 0 THEN <<>>
    ELSE Emit(ns, NextId(cs, cur)) \o Walk(ns, cs, NextId(cs, cur), safety + 1)

RECURSIVE WalkSteps(_, _, _)
\* The value of safety when that loop ends.
WalkSteps(cs, cur, safety) ==
    IF ~LoopGuard(safety) \/ FirstFrom(cs, cur) = 0 THEN safety
    ELSE WalkSteps(cs, NextId(cs, cur), safety + 1)

\* return ss.str().
GenerateRegex(ns, cs) ==
    IF EntryIndex(ns, cs) = 0 THEN <<>>
    ELSE ns[EntryIndex(ns, cs)].regexValue \o Walk(ns, cs, ns[EntryIndex(ns, cs)].id, 0)

\* The number of passes of the loop body in that call.
LoopPasses(ns, cs) ==
    IF EntryIndex(ns, cs) = 0 THEN 0 ELSE WalkSteps(cs, ns[EntryIndex(ns, cs)].id, 0)

-----------------------------------------------------------------------------
(* The state after construction: main() up to the frame loop *)

\* main: AddNode(NODE_START, 100, 300).
InitNodes == AddNodeTo(<<>>, 0, "NODE_START", 100, 300)

\* GetScreenToWorld2D of the screen centre with the camera as initialised
\* (1280 x 900 window, zoom 1, no pan): where buttons and templates put nodes.
CamCentre == <<640, 450>>

EmptyClipboard == [nodes |-> <<>>, connections |-> <<>>]

\* std::string playgroundText = "Hello World! Contact: test@email.com. Date: 2023-10-27.";
DefaultText ==
    <<"H", "e", "l", "l", "o", " ", "W", "o", "r", "l", "d", "!", " ",
      "C", "o", "n", "t", "a", "c", "t", ":", " ",
      "t", "e", "s", "t", "@", "e", "m", "a", "i", "l", ".", "c", "o", "m", ".", " ",
      "D", "a", "t", "e", ":", " ",
      "2", "0", "2", "3", "-", "1", "0", "-", "2", "7", ".">>

\* The playground as the globals initialise it: hidden, not debugging.
InitPlayground ==
    /\ showPlayground = FALSE
    /\ isDebugging = FALSE
    /\ playgroundText = DefaultText
    /\ currentDebugMatches = <<>>
    /\ currentDebugMatchIndex = 0

\* The prototype's globals as they are initialised: int selectedNodeId = -1,
\* Vector2 mouseOffset = { 0, 0 }.
InitProtoVars ==
    /\ selectedNodeId = NoNode
    /\ mouseOffset = <<0, 0>>

InitSession ==
    /\ nodes = InitNodes
    /\ connections = <<>>
    /\ nextNodeId = AfterAlloc(0)
    /\ undoStack = <<>>
    /\ redoStack = <<>>
    /\ clipboard = EmptyClipboard
    /\ editingNodeId = NoNode
    /\ isCreatingConnection = FALSE
    /\ connectionStartNodeId = NoNode
    /\ isDraggingNodes = FALSE
    /\ isBoxSelecting = FALSE
    /\ boxSelectionStart = <<0, 0>>
    /\ regStr = GenerateRegex(InitNodes, <<>>)
    /\ phase = "session"
    /\ lastOp = "Init"
    /\ preGraph = [nodes |-> nodes, connections |-> connections, nextNodeId |-> nextNodeId]
    /\ inUnit = FALSE
    /\ everIssued = AfterAlloc(0)
    /\ saveCount = 0
    /\ stepCount = 0
    /\ InitPlayground
    /\ InitProtoVars

-----------------------------------------------------------------------------
(* History variables *)

\* The longest session of the model.
StepCap == IF EditMaxSteps > MaxSteps THEN EditMaxSteps ELSE MaxSteps

CountStep == stepCount' = Min(stepCount + 1, StepCap)

\* The end of every frame: std::string regStr = GenerateRegex().
EndFrame == regStr' = GenerateRegex(nodes', connections')

\* A handler that called SaveState and starts a recorded mutation; next is the
\* value it leaves in nextNodeId.
NoteMutation(op, next) ==
    /\ lastOp' = op
    /\ preGraph' = Current
    /\ inUnit' = TRUE
    /\ everIssued' = Max(everIssued, next)
    /\ saveCount' = saveCount + 1
    /\ CountStep

\* A handler that called SaveState without starting a mutation (finish edit).
NoteSave(op) ==
    /\ lastOp' = op
    /\ UNCHANGED <<preGraph, inUnit, everIssued>>
    /\ saveCount' = saveCount + 1
    /\ CountStep

\* A handler that did not call SaveState.
NoteStep(op) ==
    /\ lastOp' = op
    /\ UNCHANGED <<preGraph, inUnit, everIssued, saveCount>>
    /\ CountStep

\* Undo or Redo restored a snapshot.
NoteRestore(op) ==
    /\ lastOp' = op
    /\ preGraph' = Current
    /\ inUnit' = FALSE
    /\ UNCHANGED <<everIssued, saveCount>>
    /\ CountStep

-----------------------------------------------------------------------------
(* SaveState, Undo, Redo *)

\* SaveState() called when the graph is (ns, cs, next).
SaveState(ns, cs, next) ==
    /\ undoStack' = PushUndo(undoStack, Snapshot(ns, cs, next))
    /\ redoStack' = ClearRedo(redoStack)

\* A variant of Undo that saves the current graph for Redo before it looks at
\* the undo stack.
UndoPushesFirst ==
    /\ phase = "session"
    /\ redoStack' = PushOpposite(redoStack, Snapshot(nodes, connections, nextNodeId))
    /\ IF undoStack = <<>>
       THEN /\ UNCHANGED <<graphVars, undoStack>>
            /\ NoteStep("UndoEmpty")
       ELSE /\ undoStack' = PopBack(undoStack)
            /\ nodes' = Last(undoStack).nodes
            /\ connections' = Last(undoStack).connections
            /\ nextNodeId' = RestoredNextId(Last(undoStack), nextNodeId)
            /\ NoteRestore("Undo")
    /\ UNCHANGED <<clipboard, editingNodeId, gestureVars, phase>>
    /\ EndFrame
    /\ UNCHANGED <<playgroundVars, protoVars>>

\* Ctrl+Z.
Undo ==
    /\ phase = "session"
    /\ IF undoStack = <<>>
       THEN /\ UNCHANGED <<graphVars, historyVars>>
            /\ NoteStep("UndoEmpty")
       ELSE /\ redoStack' = PushOpposite(redoStack, Snapshot(nodes, connections, nextNodeId))
            /\ undoStack' = PopBack(undoStack)
            /\ nodes' = Last(undoStack).nodes
            /\ connections' = Last(undoStack).connections
            /\ nextNodeId' = RestoredNextId(Last(undoStack), nextNodeId)
            /\ NoteRestore("Undo")
    /\ UNCHANGED <<clipboard, editingNodeId, gestureVars, phase>>
    /\ EndFrame
    /\ UNCHANGED <<playgroundVars, protoVars>>

\* Ctrl+Y.
Redo ==
    /\ phase = "session"
    /\ IF redoStack = <<>>
       THEN /\ UNCHANGED <<graphVars, historyVars>>
            /\ NoteStep("RedoEmpty")
       ELSE /\ undoStack' = PushOpposite(undoStack, Snapshot(nodes, connections, nextNodeId))
            /\ redoStack' = PopBack(redoStack)
            /\ nodes' = Last(redoStack).nodes
            /\ connections' = Last(redoStack).connections
            /\ nextNodeId' = RestoredNextId(Last(redoStack), nextNodeId)
            /\ lastOp' = (IF lastOp = "Undo" THEN "UndoRedo" ELSE "Redo")
            /\ inUnit' = FALSE
            /\ UNCHANGED <<preGraph, everIssued, saveCount>>
            /\ CountStep
    /\ UNCHANGED <<clipboard, editingNodeId, gestureVars, phase>>
    /\ EndFrame
    /\ UNCHANGED <<playgroundVars, protoVars>>

-----------------------------------------------------------------------------
(* Toolbar buttons: { SaveState(); AddNode(type, c.x, c.y); } *)

ButtonAddNode(type) ==
    /\ phase = "session"
    /\ SaveState(nodes, connections, nextNodeId)
    /\ nodes' = AddNodeTo(nodes, nextNodeId, type, CamCentre[1], CamCentre[2])
    /\ nextNodeId' = AfterAlloc(nextNodeId)
    /\ UNCHANGED <<connections, clipboard, editingNodeId, gestureVars, phase>>
    /\ EndFrame
    /\ UNCHANGED <<playgroundVars, protoVars>>
    /\ NoteMutation("AddNode", AfterAlloc(nextNodeId))


-----------------------------------------------------------------------------
(* Canvas: left button (selection, drag, box selection) *)

\* Mouse positions the user points at: over a node at CamCentre, over the
\* initial node, and over empty canvas.
MouseOrder == << <<700, 470>>, <<160, 320>>, <<1000, 200>> >>
MousePts == {MouseOrder[i] : i \in 1..Min(NumMousePts, Len(MouseOrder))}

\* A variant of ClickSelect in which a press without Shift always selects the
\* pressed node alone.
ClickSelectAlone(ns, i, shift) ==
    IF shift
    THEN [ns EXCEPT ![i].selected = ~ns[i].selected]
    ELSE [j \in 1..Len(ns) |-> [ns[j] EXCEPT !.selected = (j = i)]]

\* Selection after a left press on node index i.
ClickSelect(ns, i, shift) ==
    IF shift
    THEN [ns EXCEPT ![i].selected = ~ns[i].selected]
    ELSE IF ~ns[i].selected
         THEN [j \in 1..Len(ns) |-> [ns[j] EXCEPT !.selected = (j = i)]]
         ELSE ns

\* n.dragOffset = mouseWorld - n.rect, for the selected nodes.
SetDragOffsets(ns, m) ==
    [j \in 1..Len(ns) |->
        IF ns[j].selected
        THEN [ns[j] EXCEPT !.dragOffset = SetOffset(m[1] - ns[j].pos[1], m[2] - ns[j].pos[2])]
        ELSE ns[j]]

\* Values an uninitialised dragOffset may be read as.
GarbageOffsets == {<<0, 0>>, <<60, 20>>}

\* Indexes of the selected nodes whose dragOffset was never set.
UnsetSelected(ns) == {j \in 1..Len(ns) : ns[j].selected /\ ~ns[j].dragOffset.set}

\* n.rect = mouseWorld - n.dragOffset, for the selected nodes; g gives the value
\* read for each uninitialised dragOffset.
DragTo(ns, m, g) ==
    [j \in 1..Len(ns) |->
        IF ns[j].selected
        THEN LET off == IF ns[j].dragOffset.set THEN ns[j].dragOffset.v ELSE g[j]
             IN  [ns[j] EXCEPT !.pos = <<m[1] - off[1], m[2] - off[2]>>]
        ELSE ns[j]]

\* The canvas area the model keeps nodes in.
OnCanvas(ns) ==
    \A j \in 1..Len(ns) : /\ ns[j].pos[1] >= 0 /\ ns[j].pos[1] <= CanvasMax
                          /\ ns[j].pos[2] >= 0 /\ ns[j].pos[2] <= CanvasMax

\* A variant of ClearSelection that leaves the selection as it is.
KeepSelection(ns) == ns

\* for (auto& n : nodes) n.selected = false.
ClearSelection(ns) == [j \in 1..Len(ns) |-> [ns[j] EXCEPT !.selected = FALSE]]

\* IsMouseButtonPressed(MOUSE_LEFT_BUTTON) over the canvas at m.
LeftPress(m, shift) ==
    /\ phase = "session"
    /\ editingNodeId = NoNode
    /\ ~isDraggingNodes /\ ~isBoxSelecting
    /\ IF TopHit(nodes, m) # 0
       THEN LET sel == ClickSelect(nodes, TopHit(nodes, m), shift)
            IN  /\ isDraggingNodes' = TRUE
                /\ SaveState(sel, connections, nextNodeId)
                /\ nodes' = SetDragOffsets(sel, m)
                /\ UNCHANGED <<isBoxSelecting, boxSelectionStart>>
                /\ NoteMutation("BeginDrag", nextNodeId)
       ELSE /\ nodes' = (IF shift THEN nodes ELSE ClearSelection(nodes))
            /\ isBoxSelecting' = TRUE
            /\ boxSelectionStart' = m
            /\ UNCHANGED <<historyVars, isDraggingNodes>>
            /\ NoteStep("BeginBox")
    /\ UNCHANGED <<connections, nextNodeId, clipboard, editingNodeId,
                   isCreatingConnection, connectionStartNodeId, phase>>
    /\ EndFrame
    /\ UNCHANGED <<playgroundVars, protoVars>>

\* A frame with the left button held while isDraggingNodes, mouse at m.
Drag(m) ==
    /\ phase = "session"
    /\ editingNodeId = NoNode
    /\ isDraggingNodes
    /\ \E g \in [UnsetSelected(nodes) -> GarbageOffsets] :
          /\ nodes' = DragTo(nodes, m, g)
          /\ OnCanvas(DragTo(nodes, m, g))
    /\ UNCHANGED <<connections, nextNodeId, historyVars, clipboard, editingNodeId,
                   gestureVars, phase>>
    /\ EndFrame
    /\ UNCHANGED <<playgroundVars, protoVars>>
    /\ NoteStep("Drag")

\* CheckCollisionRecs of the selection box from a to b with node n.
BoxHits(a, b, n) ==
    LET x == Min(a[1], b[1])
        y == Min(a[2], b[2])
        w == Abs(b[1] - a[1])
        h == Abs(b[2] - a[2])
    IN  /\ x < n.pos[1] + NodeW /\ x + w > n.pos[1]
        /\ y < n.pos[2] + NodeH /\ y + h > n.pos[2]

\* A variant of BoxSelect that selects the nodes in the box and no other.
BoxSelectReplaces(ns, a, b) ==
    [j \in 1..Len(ns) |-> [ns[j] EXCEPT !.selected = BoxHits(a, b, ns[j])]]

\* for (auto& n : nodes) if (CheckCollisionRecs(selRect, n.rect)) n.selected = true.
BoxSelect(ns, a, b) ==
    [j \in 1..Len(ns) |->
        IF BoxHits(a, b, ns[j]) THEN [ns[j] EXCEPT !.selected = TRUE] ELSE ns[j]]

\* The frame the left button is released in, mouse at m.
LeftRelease(m) ==
    /\ phase = "session"
    /\ editingNodeId = NoNode
    /\ isDraggingNodes \/ isBoxSelecting
    /\ isDraggingNodes' = FALSE
    /\ isBoxSelecting' = FALSE
    /\ nodes' = (IF isBoxSelecting THEN BoxSelect(nodes, boxSelectionStart, m) ELSE nodes)
    /\ UNCHANGED <<connections, nextNodeId, historyVars, clipboard, editingNodeId,
                   isCreatingConnection, connectionStartNodeId, boxSelectionStart, phase>>
    /\ EndFrame
    /\ UNCHANGED <<playgroundVars, protoVars>>
    /\ NoteStep("LeftRelease")

-----------------------------------------------------------------------------
(* Canvas: right button (connections) *)

\* IsMouseButtonPressed(MOUSE_RIGHT_BUTTON) at m.
RightPress(m) ==
    /\ phase = "session"
    /\ editingNodeId = NoNode
    /\ IF FirstHit(nodes, m) # 0
       THEN /\ isCreatingConnection' = TRUE
            /\ connectionStartNodeId' = nodes[FirstHit(nodes, m)].id
       ELSE UNCHANGED <<isCreatingConnection, connectionStartNodeId>>
    /\ UNCHANGED <<graphVars, historyVars, clipboard, editingNodeId, isDraggingNodes,
                   isBoxSelecting, boxSelectionStart, phase>>
    /\ EndFrame
    /\ UNCHANGED <<playgroundVars, protoVars>>
    /\ NoteStep("RightPress")

\* A variant of ConnectTarget that accepts the node the gesture started from.
ConnectTargetAny(ns, m, start) == FirstHit(ns, m)

\* Index of the first node under m whose id is not start (0: none).
ConnectTarget(ns, m, start) ==
    LET c == {i \in HitIndexes(ns, m) : ns[i].id # start}
    IN  IF c = {} THEN 0 ELSE CHOOSE i \in c : \A j \in c : i <= j

\* The connection the release creates.
NewConnection(start, target) == [fromNodeId |-> start, toNodeId |-> target]

\* A variant of RightRelease in which the new connection replaces the ones
\* that already leave the source.
RightReleaseReplaces(m) ==
    /\ phase = "session"
    /\ editingNodeId = NoNode
    /\ isCreatingConnection
    /\ isCreatingConnection' = FALSE
    /\ IF ConnectTarget(nodes, m, connectionStartNodeId) # 0
       THEN /\ SaveState(nodes, connections, nextNodeId)
            /\ connections' = Append(SelectSeq(connections,
                                               LAMBDA c : c.fromNodeId # connectionStartNodeId),
                   NewConnection(connectionStartNodeId,
                                 nodes[ConnectTarget(nodes, m, connectionStartNodeId)].id))
            /\ NoteMutation("Connect", nextNodeId)
       ELSE /\ UNCHANGED <<connections, historyVars>>
            /\ NoteStep("RightReleaseMiss")
    /\ UNCHANGED <<nodes, nextNodeId, clipboard, editingNodeId, connectionStartNodeId,
                   isDraggingNodes, isBoxSelecting, boxSelectionStart, phase>>
    /\ EndFrame
    /\ UNCHANGED <<playgroundVars, protoVars>>

\* IsMouseButtonReleased(MOUSE_RIGHT_BUTTON) at m while isCreatingConnection.
RightRelease(m) ==
    /\ phase = "session"
    /\ editingNodeId = NoNode
    /\ isCreatingConnection
    /\ isCreatingConnection' = FALSE
    /\ IF ConnectTarget(nodes, m, connectionStartNodeId) # 0
       THEN /\ SaveState(nodes, connections, nextNodeId)
            /\ connections' = Append(connections,
                   NewConnection(connectionStartNodeId,
                                 nodes[ConnectTarget(nodes, m, connectionStartNodeId)].id))
            /\ NoteMutation("Connect", nextNodeId)
       ELSE /\ UNCHANGED <<connections, historyVars>>
            /\ NoteStep("RightReleaseMiss")
    /\ UNCHANGED <<nodes, nextNodeId, clipboard, editingNodeId, connectionStartNodeId,
                   isDraggingNodes, isBoxSelecting, boxSelectionStart, phase>>
    /\ EndFrame
    /\ UNCHANGED <<playgroundVars, protoVars>>


-----------------------------------------------------------------------------
(* Node text editing *)

\* Index of the first selected node (0: none).
FirstSelected(ns) ==
    IF \E i \in 1..Len(ns) : ns[i].selected
    THEN CHOOSE i \in 1..Len(ns) : ns[i].selected /\ \A j \in 1..(i - 1) : ~ns[j].selected
    ELSE 0

\* KEY_ENTER on the canvas: edit the first selected node.
EnterToEdit ==
    /\ phase = "session"
    /\ editingNodeId = NoNode
    /\ IF FirstSelected(nodes) # 0
       THEN /\ editingNodeId' = nodes[FirstSelected(nodes)].id
            /\ SaveState(nodes, connections, nextNodeId)
            /\ nodes' = [nodes EXCEPT ![FirstSelected(nodes)].isEditing = TRUE]
            /\ NoteMutation("BeginEdit", nextNodeId)
       ELSE /\ UNCHANGED <<nodes, historyVars, editingNodeId>>
            /\ NoteStep("EnterNothing")
    /\ UNCHANGED <<connections, nextNodeId, clipboard, gestureVars, phase>>
    /\ EndFrame
    /\ UNCHANGED <<playgroundVars, protoVars>>

\* Characters the user types into a node.
EditChars == {"x"}

\* n.regexValue += key for every node with the edited id; a custom node's title follows.
TypeInto(ns, id, c) ==
    [j \in 1..Len(ns) |->
        IF ns[j].id = id
        THEN [ns[j] EXCEPT !.regexValue = Append(ns[j].regexValue, c),
                           !.title = IF ns[j].type = "NODE_CUSTOM"
                                     THEN Append(ns[j].regexValue, c) ELSE ns[j].title]
        ELSE ns[j]]

\* n.regexValue.pop_back() for every node with the edited id and a non-empty fragment.
BackspaceIn(ns, id) ==
    [j \in 1..Len(ns) |->
        IF ns[j].id = id /\ ns[j].regexValue # <<>>
        THEN [ns[j] EXCEPT !.regexValue = Front(ns[j].regexValue),
                           !.title = IF ns[j].type = "NODE_CUSTOM"
                                     THEN Front(ns[j].regexValue) ELSE ns[j].title]
        ELSE ns[j]]

\* A printable key while a node is edited.
TypeChar(c) ==
    /\ phase = "session"
    /\ editingNodeId # NoNode
    /\ nodes' = TypeInto(nodes, editingNodeId, c)
    /\ UNCHANGED <<connections, nextNodeId, historyVars, clipboard, editingNodeId,
                   gestureVars, phase>>
    /\ EndFrame
    /\ UNCHANGED <<playgroundVars, protoVars>>
    /\ NoteStep("TypeChar")

\* KEY_BACKSPACE while a node is edited.
Backspace ==
    /\ phase = "session"
    /\ editingNodeId # NoNode
    /\ nodes' = BackspaceIn(nodes, editingNodeId)
    /\ UNCHANGED <<connections, nextNodeId, historyVars, clipboard, editingNodeId,
                   gestureVars, phase>>
    /\ EndFrame
    /\ UNCHANGED <<playgroundVars, protoVars>>
    /\ NoteStep("Backspace")

\* What the finish-edit branch does: SaveState, then leave edit mode.
FinishEditBody ==
    /\ SaveState(nodes, connections, nextNodeId)
    /\ editingNodeId' = NoNode
    /\ nodes' = [j \in 1..Len(nodes) |-> [nodes[j] EXCEPT !.isEditing = FALSE]]
    /\ UNCHANGED <<connections, nextNodeId, clipboard, gestureVars, phase>>
    /\ EndFrame
    /\ UNCHANGED <<playgroundVars, protoVars>>
    /\ NoteSave("FinishEdit")

\* KEY_ENTER while a node is edited.
FinishEditKey ==
    /\ phase = "session"
    /\ editingNodeId # NoNode
    /\ FinishEditBody

\* A left press at m while a node is edited: finishes the edit unless m is over
\* nodes[0].  With no node left nodes[0] is read out of bounds, and the press may
\* or may not finish the edit (not finishing leaves the state as it is).
FinishEditClick(m) ==
    /\ phase = "session"
    /\ editingNodeId # NoNode
    /\ IF nodes = <<>> THEN TRUE ELSE ~PointInRect(m, nodes[1])
    /\ FinishEditBody

-----------------------------------------------------------------------------
(* DeleteSelected and the clipboard *)

IsSelectedId(ns, id) == \E j \in 1..Len(ns) : ns[j].id = id /\ ns[j].selected

\* A variant of KeptConnections that looks at the source end only.
KeptConnectionsFromOnly(ns, cs) ==
    SelectSeq2(cs, [k \in 1..Len(cs) |-> ~IsSelectedId(ns, cs[k].fromNodeId)], 1)

\* The connections DeleteSelected keeps: those with no selected endpoint.
KeptConnections(ns, cs) ==
    SelectSeq2(cs, [k \in 1..Len(cs) |->
                      ~(IsSelectedId(ns, cs[k].fromNodeId) \/ IsSelectedId(ns, cs[k].toNodeId))], 1)

\* The nodes DeleteSelected keeps.
KeptNodes(ns) == SelectSeq2(ns, [j \in 1..Len(ns) |-> ~ns[j].selected], 1)

\* DeleteSelected(), as part of the handler named op.
DeleteSelectedBody(op) ==
    IF nodes = <<>> /\ connections = <<>>
    THEN /\ UNCHANGED <<graphVars, historyVars>>
         /\ NoteStep(IF op = "Cut" THEN "CutEmpty" ELSE "DeleteEmpty")
    ELSE /\ SaveState(nodes, connections, nextNodeId)
         /\ connections' = KeptConnections(nodes, connections)
         /\ nodes' = KeptNodes(nodes)
         /\ UNCHANGED nextNodeId
         /\ NoteMutation(op, nextNodeId)

\* KEY_DELETE on the canvas.
DeleteSelected ==
    /\ phase = "session"
    /\ editingNodeId = NoNode
    /\ DeleteSelectedBody("Delete")
    /\ UNCHANGED <<clipboard, editingNodeId, gestureVars, phase>>
    /\ EndFrame
    /\ UNCHANGED <<playgroundVars, protoVars>>

\* A variant of CopyOf that takes a connection when either end is selected.
CopyOfEitherEnd(ns, cs) ==
    LET selectedIds == {ns[j].id : j \in {i \in 1..Len(ns) : ns[i].selected}}
    IN  [nodes |-> SelectSeq2(ns, [j \in 1..Len(ns) |-> ns[j].selected], 1),
         connections |-> SelectSeq2(cs, [k \in 1..Len(cs) |->
                             cs[k].fromNodeId \in selectedIds \/ cs[k].toNodeId \in selectedIds], 1)]

\* What CopyToClipboard stores.
CopyOf(ns, cs) ==
    LET selectedIds == {ns[j].id : j \in {i \in 1..Len(ns) : ns[i].selected}}
    IN  [nodes |-> SelectSeq2(ns, [j \in 1..Len(ns) |-> ns[j].selected], 1),
         connections |-> SelectSeq2(cs, [k \in 1..Len(cs) |->
                             cs[k].fromNodeId \in selectedIds /\ cs[k].toNodeId \in selectedIds], 1)]

\* A variant of CopyToClipboard that does not clear the buffer first.
CopyWithoutClear ==
    /\ phase = "session"
    /\ editingNodeId = NoNode
    /\ clipboard' = [nodes |-> clipboard.nodes \o CopyOf(nodes, connections).nodes,
                     connections |-> clipboard.connections \o CopyOf(nodes, connections).connections]
    /\ UNCHANGED <<graphVars, historyVars, editingNodeId, gestureVars, phase>>
    /\ EndFrame
    /\ UNCHANGED <<playgroundVars, protoVars>>
    /\ NoteStep("Copy")

\* Ctrl+C on the canvas.
CopyToClipboard ==
    /\ phase = "session"
    /\ editingNodeId = NoNode
    /\ clipboard' = CopyOf(nodes, connections)
    /\ UNCHANGED <<graphVars, historyVars, editingNodeId, gestureVars, phase>>
    /\ EndFrame
    /\ UNCHANGED <<playgroundVars, protoVars>>
    /\ NoteStep("Copy")

\* A variant of Cut that deletes before it copies.
CutDeletesFirst ==
    /\ phase = "session"
    /\ editingNodeId = NoNode
    /\ clipboard' = CopyOf(KeptNodes(nodes), KeptConnections(nodes, connections))
    /\ DeleteSelectedBody("Cut")
    /\ UNCHANGED <<editingNodeId, gestureVars, phase>>
    /\ EndFrame
    /\ UNCHANGED <<playgroundVars, protoVars>>

\* Ctrl+X on the canvas: { CopyToClipboard(); DeleteSelected(); }.
Cut ==
    /\ phase = "session"
    /\ editingNodeId = NoNode
    /\ clipboard' = CopyOf(nodes, connections)
    /\ DeleteSelectedBody("Cut")
    /\ UNCHANGED <<editingNodeId, gestureVars, phase>>
    /\ EndFrame
    /\ UNCHANGED <<playgroundVars, protoVars>>

RECURSIVE SumCoord(_, _, _)
\* The sum of coordinate c of the positions of ns[i..].
SumCoord(ns, c, i) == IF i > Len(ns) THEN 0 ELSE ns[i].pos[c] + SumCoord(ns, c, i + 1)

\* avgPos of the buffered nodes.  The program divides floats; canvas coordinates
\* are integers here and the quotient is truncated.
AvgPos(cn) == <<SumCoord(cn, 1, 1) \div Len(cn), SumCoord(cn, 2, 1) \div Len(cn)>>

\* The nodes PasteFromClipboard appends for the buffer cn, pasting at m.
PastedNodes(cn, next, m) ==
    [k \in 1..Len(cn) |->
        [cn[k] EXCEPT !.id = next + k - 1,
                      !.selected = TRUE,
                      !.pos = <<m[1] + (cn[k].pos[1] - AvgPos(cn)[1]),
                                m[2] + (cn[k].pos[2] - AvgPos(cn)[2])>>]]

\* A variant of IdMap that keeps the buffered id.
IdMapKeepsOld(cn, next, id) == id

\* idMap[id]: the new id of the last buffered node with that id; operator[] of a
\* std::map gives 0 for a key it does not hold.
IdMap(cn, next, id) ==
    IF \E k \in 1..Len(cn) : cn[k].id = id
    THEN next + (CHOOSE k \in 1..Len(cn) :
                    cn[k].id = id /\ \A j \in (k + 1)..Len(cn) : cn[j].id # id) - 1
    ELSE 0

PastedConnections(clip, next) ==
    [k \in 1..Len(clip.connections) |->
        [fromNodeId |-> IdMap(clip.nodes, next, clip.connections[k].fromNodeId),
         toNodeId |-> IdMap(clip.nodes, next, clip.connections[k].toNodeId)]]

\* A variant of PasteFromClipboard that calls SaveState before it looks at the
\* clipboard.
PasteSavesFirst(m) ==
    /\ phase = "session"
    /\ editingNodeId = NoNode
    /\ SaveState(nodes, connections, nextNodeId)
    /\ IF clipboard.nodes = <<>>
       THEN /\ UNCHANGED graphVars
            /\ NoteSave("PasteEmpty")
       ELSE /\ nodes' = ClearSelection(nodes) \o PastedNodes(clipboard.nodes, nextNodeId, m)
            /\ nextNodeId' = nextNodeId + Len(clipboard.nodes)
            /\ connections' = connections \o PastedConnections(clipboard, nextNodeId)
            /\ NoteMutation("Paste", nextNodeId + Len(clipboard.nodes))
    /\ UNCHANGED <<clipboard, editingNodeId, gestureVars, phase>>
    /\ EndFrame
    /\ UNCHANGED <<playgroundVars, protoVars>>

\* Ctrl+V on the canvas, mouse at m.
PasteFromClipboard(m) ==
    /\ phase = "session"
    /\ editingNodeId = NoNode
    /\ IF clipboard.nodes = <<>>
       THEN /\ UNCHANGED <<graphVars, historyVars>>
            /\ NoteStep("PasteEmpty")
       ELSE /\ SaveState(nodes, connections, nextNodeId)
            /\ nodes' = ClearSelection(nodes) \o PastedNodes(clipboard.nodes, nextNodeId, m)
            /\ nextNodeId' = nextNodeId + Len(clipboard.nodes)
            /\ connections' = connections \o PastedConnections(clipboard, nextNodeId)
            /\ NoteMutation("Paste", nextNodeId + Len(clipboard.nodes))
    /\ UNCHANGED <<clipboard, editingNodeId, gestureVars, phase>>
    /\ EndFrame
    /\ UNCHANGED <<playgroundVars, protoVars>>


-----------------------------------------------------------------------------
(* Templates: AddTemplate *)

TemplateTypes == {"TPL_EMAIL", "TPL_DATE_ISO", "TPL_PHONE_US", "TPL_URL_SIMPLE", "TPL_IP_V4"}

Step(type, customVal) == [type |-> type, customVal |-> customVal]
Plain(type) == Step(type, <<>>)
Custom(val) == Step("NODE_CUSTOM", val)

\* The three Append calls of the TPL_IP_V4 loop body.
IpOctet == <<Plain("NODE_DIGIT"), Custom(<<"{", "1", ",", "3", "}">>), Custom(<<".">>)>>

\* The Append calls of each case of the switch, in order.
TemplateSteps(t) ==
    CASE t = "TPL_EMAIL" ->
            <<Plain("NODE_WORD"), Plain("NODE_ONE_OR_MORE"), Plain("NODE_SYMBOL"),
              Plain("NODE_WORD"), Plain("NODE_ONE_OR_MORE"), Custom(<<".">>),
              Plain("NODE_WORD"), Plain("NODE_ONE_OR_MORE")>>
      [] t = "TPL_DATE_ISO" ->
            <<Plain("NODE_DIGIT"), Custom(<<"{", "4", "}">>), Custom(<<"-">>),
              Plain("NODE_DIGIT"), Custom(<<"{", "2", "}">>), Custom(<<"-">>),
              Plain("NODE_DIGIT"), Custom(<<"{", "2", "}">>)>>
      [] t = "TPL_PHONE_US" ->
            <<Plain("NODE_DIGIT"), Custom(<<"{", "3", "}">>), Custom(<<"-">>),
              Plain("NODE_DIGIT"), Custom(<<"{", "3", "}">>), Custom(<<"-">>),
              Plain("NODE_DIGIT"), Custom(<<"{", "4", "}">>)>>
      [] t = "TPL_URL_SIMPLE" ->
            <<Custom(<<"h", "t", "t", "p">>), Custom(<<"s">>), Plain("NODE_OPTIONAL"),
              Custom(<<":", "/", "/">>), Plain("NODE_WORD"), Plain("NODE_ONE_OR_MORE"),
              Custom(<<".">>), Plain("NODE_WORD"), Plain("NODE_ONE_OR_MORE")>>
      [] t = "TPL_IP_V4" ->
            IpOctet \o IpOctet \o IpOctet
            \o <<Plain("NODE_DIGIT"), Custom(<<"{", "1", ",", "3", "}">>)>>

\* float spacingX = 180.0f.
SpacingX == 180

\* The node one Append call creates: AddNode, then the custom value if given.
TemplateNode(id, step, x, y) ==
    IF step.type = "NODE_CUSTOM" /\ step.customVal # <<>>
    THEN [NewNode(id, step.type, x, y) EXCEPT !.regexValue = step.customVal,
                                              !.title = step.customVal]
    ELSE NewNode(id, step.type, x, y)

RECURSIVE ExpandFromFirst(_, _, _, _, _, _, _, _)
\* A variant of Expand that links every new node to the first one created.
ExpandFromFirst(steps, k, ns, cs, next, prev, x, y) ==
    IF k > Len(steps) THEN AppState(ns, cs, next)
    ELSE LET n == TemplateNode(AllocId(next), steps[k], x, y)
         IN  ExpandFromFirst(steps, k + 1, Append(ns, n),
                             IF prev # NoNode THEN Append(cs, NewConnection(prev, n.id)) ELSE cs,
                             AfterAlloc(next), IF prev # NoNode THEN prev ELSE n.id,
                             x + SpacingX, y)

RECURSIVE Expand(_, _, _, _, _, _, _, _)
\* The Append calls steps[k..] applied to (ns, cs, next); prev is prevNodeId.
Expand(steps, k, ns, cs, next, prev, x, y) ==
    IF k > Len(steps) THEN AppState(ns, cs, next)
    ELSE LET n == TemplateNode(AllocId(next), steps[k], x, y)
         IN  Expand(steps, k + 1, Append(ns, n),
                    IF prev # NoNode THEN Append(cs, NewConnection(prev, n.id)) ELSE cs,
                    AfterAlloc(next), n.id, x + SpacingX, y)

\* A template button of the templates window.
AddTemplate(t) ==
    /\ phase = "session"
    /\ SaveState(nodes, connections, nextNodeId)
    /\ LET r == Expand(TemplateSteps(t), 1, nodes, connections, nextNodeId, NoNode,
                       CamCentre[1], CamCentre[2])
       IN  /\ nodes' = r.nodes
           /\ connections' = r.connections
           /\ nextNodeId' = r.nextNodeId
           /\ NoteMutation("Template", r.nextNodeId)
    /\ UNCHANGED <<clipboard, editingNodeId, gestureVars, phase>>
    /\ EndFrame
    /\ UNCHANGED <<playgroundVars, protoVars>>


-----------------------------------------------------------------------------
(* The regex facility: std::regex (ECMAScript grammar) and std::sregex_iterator *)
(* on the part of the grammar the graphs of this model generate: the           *)
(* assertion ^, the atoms \d \w . and literal characters, escaped literals,    *)
(* and the greedy quantifiers + * ? directly after an atom.                    *)

Digits == {"0", "1", "2", "3", "4", "5", "6", "7", "8", "9"}
Letters == {"a", "b", "c", "d", "e", "f", "g", "h", "i", "j", "k", "l", "m",
            "n", "o", "p", "q", "r", "s", "t", "u", "v", "w", "x", "y", "z",
            "A", "B", "C", "D", "E", "F", "G", "H", "I", "J", "K", "L", "M",
            "N", "O", "P", "Q", "R", "S", "T", "U", "V", "W", "X", "Y", "Z"}
Quantifiers == {"+", "*", "?"}

Term(kind, ch, quant) == [kind |-> kind, ch |-> ch, quant |-> quant]

\* The quantifier that follows the atom ending before p[i], and the index after it.
QuantAt(p, i) == IF i <= Len(p) /\ p[i] \in Quantifiers THEN p[i] ELSE "1"
AfterQuant(p, i) == IF i <= Len(p) /\ p[i] \in Quantifiers THEN i + 1 ELSE i

RECURSIVE ParseFrom(_, _, _)
\* std::regex pattern(patternStr): the terms of p[i..] appended to acc, or a
\* regex_error (a quantifier with nothing to repeat, a trailing backslash).
ParseFrom(p, i, acc) ==
    IF i > Len(p) THEN [ok |-> TRUE, terms |-> acc]
    ELSE CASE p[i] = "^" -> ParseFrom(p, i + 1, Append(acc, Term("bol", "", "1")))
           [] p[i] \in Quantifiers /\ (i = 1 \/ p[i - 1] \notin Quantifiers) ->
                 [ok |-> FALSE, terms |-> <<>>]
           [] p[i] = "\\" ->
                 IF i = Len(p) THEN [ok |-> FALSE, terms |-> <<>>]
                 ELSE LET kind == CASE p[i + 1] = "d" -> "digit"
                                    [] p[i + 1] = "w" -> "word"
                                    [] p[i + 1] \notin Letters \union Digits -> "lit"
                      IN  ParseFrom(p, AfterQuant(p, i + 2),
                                    Append(acc, Term(kind, p[i + 1], QuantAt(p, i + 2))))
           [] p[i] = "." ->
                 ParseFrom(p, AfterQuant(p, i + 1), Append(acc, Term("any", "", QuantAt(p, i + 1))))
           [] p[i] \notin {"^", "\\", ".", "$", "(", ")", "[", "]", "{", "}", "|"} \union Quantifiers ->
                 ParseFrom(p, AfterQuant(p, i + 1), Append(acc, Term("lit", p[i], QuantAt(p, i + 1))))

ParsePattern(p) == ParseFrom(p, 1, <<>>)

\* One character against one atom.
AtomOk(term, c) ==
    CASE term.kind = "digit" -> c \in Digits
      [] term.kind = "word" -> c \in Letters \union Digits \union {"_"}
      [] term.kind = "any" -> c \notin {"\n", "\r"}
      [] term.kind = "lit" -> c = term.ch

RECURSIVE RunLength(_, _, _)
\* How many characters from offset p on match the atom.
RunLength(term, text, p) ==
    IF p < Len(text) /\ AtomOk(term, text[p + 1]) THEN 1 + RunLength(term, text, p + 1) ELSE 0

RECURSIVE MatchFrom(_, _, _, _, _)
RECURSIVE TryCounts(_, _, _, _, _, _, _)
\* The backtracking matcher: the end offset of the first match, in priority
\* order, of terms[k..] at offset p that does not end at offset nn; -1 if none.
MatchFrom(terms, k, text, p, nn) ==
    IF k > Len(terms) THEN (IF p = nn THEN -1 ELSE p)
    ELSE LET t == terms[k]
         IN  IF t.kind = "bol"
             THEN (IF p = 0 THEN MatchFrom(terms, k + 1, text, p, nn) ELSE -1)
             ELSE LET run == RunLength(t, text, p)
                      most == IF t.quant \in {"1", "?"} THEN Min(run, 1) ELSE run
                      least == IF t.quant \in {"1", "+"} THEN 1 ELSE 0
                  IN  TryCounts(terms, k, text, p, nn, most, least)

\* Greedy repetition: n characters for terms[k], then fewer, down to least.
TryCounts(terms, k, text, p, nn, n, least) ==
    IF n < least THEN -1
    ELSE LET e == MatchFrom(terms, k + 1, text, p + n, nn)
         IN  IF e # -1 THEN e ELSE TryCounts(terms, k, text, p, nn, n - 1, least)

RECURSIVE SearchFrom(_, _, _)
\* regex_search from offset p: the first offset with a match and its end, or <<-1, -1>>.
SearchFrom(terms, text, p) ==
    IF p > Len(text) THEN <<-1, -1>>
    ELSE LET e == MatchFrom(terms, 1, text, p, -1)
         IN  IF e # -1 THEN <<p, e>> ELSE SearchFrom(terms, text, p + 1)

DebugMatchOf(m) == [start |-> m[1], length |-> m[2] - m[1]]

RECURSIVE IterateFrom(_, _, _)
\* std::sregex_iterator: the match m and the matches its operator++ finds. After
\* an empty match it first looks for a non-empty match at the same offset, then
\* searches from the next offset; it ends after an empty match at the end.
IterateFrom(terms, text, m) ==
    IF m[1] = -1 THEN <<>>
    ELSE <<DebugMatchOf(m)>> \o
         (IF m[2] > m[1] THEN IterateFrom(terms, text, SearchFrom(terms, text, m[2]))
          ELSE IF m[1] = Len(text) THEN <<>>
          ELSE LET e == MatchFrom(terms, 1, text, m[1], m[1])
               IN  IF e # -1 THEN IterateFrom(terms, text, <<m[1], e>>)
                   ELSE IterateFrom(terms, text, SearchFrom(terms, text, m[1] + 1)))

\* The matches AnalyzeMatchesForDebug pushes: none when std::regex throws.
MatchesOf(patternStr, text) ==
    LET parsed == ParsePattern(patternStr)
    IN  IF parsed.ok THEN IterateFrom(parsed.terms, text, SearchFrom(parsed.terms, text, 0))
        ELSE <<>>

\* A variant of ResetIndex that keeps the index.
ResetIndexKeeps(index, matches) == index

\* if (currentDebugMatchIndex >= size) currentDebugMatchIndex = 0.
ResetIndex(index, matches) == IF index >= Len(matches) THEN 0 ELSE index

\* AnalyzeMatchesForDebug(patternStr) on the text `text`.
AnalyzeMatchesForDebug(patternStr, text) ==
    /\ currentDebugMatches' = MatchesOf(patternStr, text)
    /\ currentDebugMatchIndex' = ResetIndex(currentDebugMatchIndex, MatchesOf(patternStr, text))

-----------------------------------------------------------------------------
(* The playground and the match debugger *)

\* What every playground handler leaves alone.
PlaygroundFrame ==
    /\ phase = "session"
    /\ UNCHANGED <<graphVars, historyVars, clipboard, editingNodeId, gestureVars, phase,
                   protoVars>>
    /\ EndFrame

\* The TEST / HIDE button.
TogglePlayground ==
    /\ PlaygroundFrame
    /\ showPlayground' = ~showPlayground
    /\ isDebugging' = IF ~showPlayground THEN FALSE ELSE isDebugging
    /\ UNCHANGED <<playgroundText, currentDebugMatches, currentDebugMatchIndex>>
    /\ NoteStep("TogglePlayground")

\* The DEBUG / EXIT button of the playground panel.
ToggleDebug ==
    /\ PlaygroundFrame
    /\ showPlayground
    /\ isDebugging' = ~isDebugging
    /\ IF ~isDebugging THEN AnalyzeMatchesForDebug(regStr, playgroundText)
       ELSE UNCHANGED <<currentDebugMatches, currentDebugMatchIndex>>
    /\ UNCHANGED <<showPlayground, playgroundText>>
    /\ NoteStep(IF isDebugging THEN "DebugOff" ELSE "DebugOn")

\* The ERASE button of the playground panel.
Erase ==
    /\ PlaygroundFrame
    /\ showPlayground
    /\ playgroundText' = <<>>
    /\ IF isDebugging THEN AnalyzeMatchesForDebug(regStr, <<>>)
       ELSE UNCHANGED <<currentDebugMatches, currentDebugMatchIndex>>
    /\ UNCHANGED <<showPlayground, isDebugging>>
    /\ NoteStep("Erase")

\* A character typed with the mouse over the playground.
PlaygroundType(c) ==
    /\ PlaygroundFrame
    /\ showPlayground
    /\ playgroundText' = Append(playgroundText, c)
    /\ IF isDebugging
       THEN AnalyzeMatchesForDebug(GenerateRegex(nodes, connections), Append(playgroundText, c))
       ELSE UNCHANGED <<currentDebugMatches, currentDebugMatchIndex>>
    /\ UNCHANGED <<showPlayground, isDebugging>>
    /\ NoteStep("PlaygroundType")

\* if (!target.empty()) target.pop_back().
PopBackText(s) == IF s = <<>> THEN s ELSE SubSeq(s, 1, Len(s) - 1)

\* Backspace pressed with the mouse over the playground.
PlaygroundBackspace ==
    /\ PlaygroundFrame
    /\ showPlayground
    /\ playgroundText' = PopBackText(playgroundText)
    /\ IF isDebugging
       THEN AnalyzeMatchesForDebug(GenerateRegex(nodes, connections), PopBackText(playgroundText))
       ELSE UNCHANGED <<currentDebugMatches, currentDebugMatchIndex>>
    /\ UNCHANGED <<showPlayground, isDebugging>>
    /\ NoteStep("PlaygroundBackspace")

\* currentDebugMatchIndex--; if (< 0) currentDebugMatchIndex = size - 1.
PrevIndex(index, size) == IF index - 1 < 0 THEN size - 1 ELSE index - 1

\* (currentDebugMatchIndex + 1) % size.
NextIndex(index, size) == (index + 1) % size

\* The "<" button of the debugger, drawn when the match list is not empty.
DebugPrev ==
    /\ PlaygroundFrame
    /\ showPlayground /\ isDebugging /\ currentDebugMatches # <<>>
    /\ currentDebugMatchIndex' = PrevIndex(currentDebugMatchIndex, Len(currentDebugMatches))
    /\ UNCHANGED <<showPlayground, isDebugging, playgroundText, currentDebugMatches>>
    /\ NoteStep("DebugPrev")

\* The ">" button of the debugger.
DebugNext ==
    /\ PlaygroundFrame
    /\ showPlayground /\ isDebugging /\ currentDebugMatches # <<>>
    /\ currentDebugMatchIndex' = NextIndex(currentDebugMatchIndex, Len(currentDebugMatches))
    /\ UNCHANGED <<showPlayground, isDebugging, playgroundText, currentDebugMatches>>
    /\ NoteStep("DebugNext")

-----------------------------------------------------------------------------
(* Persistence: LoadProject *)

\* The header SaveProject writes.
FormatHeader == "VREGEX_1.0"

\* What LoadProject finds at the path: whether the file exists and opens, its
\* first token, and the node lines, connection lines and nextNodeId after it.
ProjectFile(exists, opens, header, ns, cs, next) ==
    [exists |-> exists, opens |-> opens, header |-> header,
     nodes |-> ns, connections |-> cs, nextNodeId |-> next]

\* The three early returns of LoadProject.
LoadFailure(f) ==
    IF ~f.exists THEN "LoadMissing"
    ELSE IF ~f.opens THEN "LoadUnopenable"
    ELSE IF f.header # FormatHeader THEN "LoadBadHeader"
    ELSE "None"

\* A node as the node loop builds it: the size is fixed, selected is false.
LoadedNode(n) == [n EXCEPT !.isEditing = FALSE, !.selected = FALSE]

\* A variant of LoadedGraph that clears the graph before it looks at the header.
LoadedGraphClearsFirst(f, ns, cs, next) ==
    IF ~f.exists \/ ~f.opens THEN AppState(ns, cs, next)
    ELSE IF f.header # FormatHeader THEN AppState(<<>>, <<>>, next)
    ELSE AppState([i \in 1..Len(f.nodes) |-> LoadedNode(f.nodes[i])], f.connections, f.nextNodeId)

\* The graph LoadProject leaves: the one before on an early return, else the
\* nodes, connections and nextNodeId read from the file.
LoadedGraph(f, ns, cs, next) ==
    IF LoadFailure(f) # "None" THEN AppState(ns, cs, next)
    ELSE AppState([i \in 1..Len(f.nodes) |-> LoadedNode(f.nodes[i])], f.connections, f.nextNodeId)

\* The console command "load <filename>" with f at the path.
LoadProject(f) ==
    /\ phase = "session"
    /\ LET g == LoadedGraph(f, nodes, connections, nextNodeId)
       IN  /\ nodes' = g.nodes
           /\ connections' = g.connections
           /\ nextNodeId' = g.nextNodeId
           /\ everIssued' = Max(everIssued, g.nextNodeId)
    /\ lastOp' = IF LoadFailure(f) # "None" THEN LoadFailure(f) ELSE "Load"
    /\ UNCHANGED <<preGraph, inUnit, saveCount>>
    /\ CountStep
    /\ UNCHANGED <<historyVars, clipboard, editingNodeId, gestureVars, phase>>
    /\ EndFrame
    /\ UNCHANGED <<playgroundVars, protoVars>>

-----------------------------------------------------------------------------
(* The editing session: one handler per step *)

\* The toolbar buttons, in the order the bottom panel draws them.
ButtonOrder == <<"NODE_CUSTOM", "NODE_TEXT", "NODE_DIGIT", "NODE_WORD", "NODE_WHITESPACE",
                 "NODE_ANY", "NODE_SYMBOL", "NODE_NOT_DIGIT", "NODE_NOT_WORD",
                 "NODE_ZERO_OR_MORE", "NODE_ONE_OR_MORE", "NODE_OPTIONAL",
                 "NODE_START", "NODE_END", "NODE_GROUP_START", "NODE_GROUP_END", "NODE_OR">>
AddKinds == {ButtonOrder[i] : i \in 1..Min(NumAddKinds, Len(ButtonOrder))}

\* The session may run another handler, and one that allocates node ids.
MayStep == stepCount < MaxSteps
MayAlloc == MayStep /\ nextNodeId < MaxNextId

\* The text being edited may grow.
MayType == \A j \in 1..Len(nodes) :
              nodes[j].id = editingNodeId => Len(nodes[j].regexValue) < MaxTextLen

\* The template buttons the user presses.
TemplateOrder == <<"TPL_EMAIL", "TPL_DATE_ISO", "TPL_PHONE_US", "TPL_URL_SIMPLE", "TPL_IP_V4">>
Templates == {TemplateOrder[i] : i \in 1..Min(NumTemplates, Len(TemplateOrder))}

Next ==
    \/ MayStep /\ Undo
    \/ MayStep /\ Redo
    \/ \E t \in AddKinds : MayAlloc /\ ButtonAddNode(t)
    \/ \E m \in MousePts, shift \in BOOLEAN : MayStep /\ LeftPress(m, shift)
    \/ \E m \in MousePts : MayStep /\ Drag(m)
    \/ \E m \in MousePts : MayStep /\ LeftRelease(m)
    \/ \E m \in MousePts : MayStep /\ RightPress(m)
    \/ \E m \in MousePts : MayStep /\ RightRelease(m)
    \/ MayStep /\ EnterToEdit
    \/ \E c \in EditChars : MayStep /\ MayType /\ TypeChar(c)
    \/ MayStep /\ Backspace
    \/ MayStep /\ FinishEditKey
    \/ \E m \in MousePts : MayStep /\ FinishEditClick(m)
    \/ MayStep /\ DeleteSelected
    \/ MayStep /\ CopyToClipboard
    \/ MayStep /\ Cut
    \/ \E m \in MousePts : MayAlloc /\ PasteFromClipboard(m)
    \/ \E t \in Templates : MayAlloc /\ AddTemplate(t)

Spec == InitSession /\ [][Next]_vars

-----------------------------------------------------------------------------
(* The history at its capacity: one toolbar button pressed again and again,
   with Undo and Redo *)

\* The button pressed.
HistKind == ButtonOrder[1]

\* Undo and Redo are explored where the capacity matters: once the session has
\* recorded HistUndoFrom mutations.
NearCap == saveCount >= HistUndoFrom

NextHist ==
    \/ NearCap /\ Undo
    \/ NearCap /\ Redo
    \/ saveCount < HistMaxSaves /\ ButtonAddNode(HistKind)

SpecHist == InitSession /\ [][NextHist]_vars

-----------------------------------------------------------------------------
(* One call of GenerateRegex on a graph drawn from a bounded family *)

LinKinds == {"NODE_START", "NODE_DIGIT", "NODE_ONE_OR_MORE"}

\* Node lists of up to LinMaxNodes nodes with ids 0, 1, ... in insertion order.
LinNodeLists ==
    UNION {{[i \in 1..n |-> NewNode(i - 1, f[i], 100, 300)] : f \in [1..n -> LinKinds]} :
              n \in 0..LinMaxNodes}

\* Connection lists of up to LinMaxConns connections between the ids 0..n; no
\* node of an n-node list has id n (a graph file may name such an id).
LinConnLists(n) ==
    UNION {[1..k -> {NewConnection(a, b) : a \in 0..n, b \in 0..n}] : k \in 0..LinMaxConns}

\* START -> digit -> one-or-more.
SimpleChainNodes == <<NewNode(0, "NODE_START", 100, 300), NewNode(1, "NODE_DIGIT", 300, 300),
                      NewNode(2, "NODE_ONE_OR_MORE", 500, 300)>>
SimpleChainConns == <<NewConnection(0, 1), NewConnection(1, 2)>>

InitLin ==
    /\ \/ /\ nodes \in LinNodeLists
          /\ connections \in LinConnLists(Len(nodes))
       \/ /\ nodes = SimpleChainNodes
          /\ connections = SimpleChainConns
    /\ nextNodeId = Len(nodes) + 1
    /\ undoStack = <<>>
    /\ redoStack = <<>>
    /\ clipboard = EmptyClipboard
    /\ editingNodeId = NoNode
    /\ isCreatingConnection = FALSE
    /\ connectionStartNodeId = NoNode
    /\ isDraggingNodes = FALSE
    /\ isBoxSelecting = FALSE
    /\ boxSelectionStart = <<0, 0>>
    /\ regStr = <<>>
    /\ phase = "input"
    /\ lastOp = "Init"
    /\ preGraph = [nodes |-> nodes, connections |-> connections, nextNodeId |-> nextNodeId]
    /\ inUnit = FALSE
    /\ everIssued = nextNodeId
    /\ saveCount = 0
    /\ stepCount = 0
    /\ InitPlayground
    /\ InitProtoVars

\* regStr = GenerateRegex().
Linearize ==
    /\ phase = "input"
    /\ regStr' = GenerateRegex(nodes, connections)
    /\ phase' = "done"
    /\ lastOp' = "GenerateRegex"
    /\ UNCHANGED <<graphVars, historyVars, clipboard, editingNodeId, gestureVars,
                   preGraph, inUnit, everIssued, saveCount, stepCount, playgroundVars,
                   protoVars>>

\* A variant of LinearizeAgain that keeps the text of the earlier call in the
\* stream.
LinearizeAgainAppends ==
    /\ phase = "done"
    /\ regStr' = regStr \o GenerateRegex(nodes, connections)
    /\ phase' = "again"
    /\ lastOp' = "GenerateRegexAgain"
    /\ UNCHANGED <<graphVars, historyVars, clipboard, editingNodeId, gestureVars,
                   preGraph, inUnit, everIssued, saveCount, stepCount, playgroundVars,
                   protoVars>>

\* The call of the next frame on the same graph.
LinearizeAgain ==
    /\ phase = "done"
    /\ regStr' = GenerateRegex(nodes, connections)
    /\ phase' = "again"
    /\ lastOp' = "GenerateRegexAgain"
    /\ UNCHANGED <<graphVars, historyVars, clipboard, editingNodeId, gestureVars,
                   preGraph, inUnit, everIssued, saveCount, stepCount, playgroundVars,
                   protoVars>>

NextLin == Linearize \/ LinearizeAgain

SpecLin == InitLin /\ [][NextLin]_vars

-----------------------------------------------------------------------------
(* The clipboard session: a project was loaded and some of its nodes were
   selected with the selection box (neither records a snapshot); then copy,
   cut, paste and Undo *)

\* The kinds of the nodes of the loaded graphs, by position in the list.
ClipKindOrder == <<"NODE_START", "NODE_DIGIT", "NODE_CUSTOM", "NODE_WORD">>

\* The i-th node of a loaded graph: id i - 1, one node every SpacingX.
ClipNode(i, sel) ==
    [NewNode(i - 1, ClipKindOrder[((i - 1) % Len(ClipKindOrder)) + 1],
             100 + SpacingX * (i - 1), 300) EXCEPT !.selected = sel]

\* Node lists of 1 .. ClipMaxNodes nodes, any of them selected.
ClipNodeLists ==
    UNION {{[i \in 1..n |-> ClipNode(i, f[i])] : f \in [1..n -> BOOLEAN]} :
              n \in 1..ClipMaxNodes}

\* The connections of cs run along some order of the ids 0 .. n - 1: no cycle.
ClipAcyclic(cs, n) ==
    \E rank \in [0..(n - 1) -> 0..(n - 1)] :
        \A k \in 1..Len(cs) : rank[cs[k].fromNodeId] < rank[cs[k].toNodeId]

\* Connection lists of up to ClipMaxConns connections between the nodes of an
\* n-node list, in either direction, without a cycle.
ClipConnLists(n) ==
    {cs \in UNION {[1..k -> {NewConnection(a, b) : a, b \in 0..(n - 1)}] : k \in 0..ClipMaxConns} :
        ClipAcyclic(cs, n)}

\* Where the clipboard session pastes.
ClipPasteAt == MouseOrder[1]

InitClip ==
    /\ nodes \in ClipNodeLists
    /\ connections \in ClipConnLists(Len(nodes))
    /\ nextNodeId = Len(nodes)
    /\ undoStack = <<>>
    /\ redoStack = <<>>
    /\ clipboard = EmptyClipboard
    /\ editingNodeId = NoNode
    /\ isCreatingConnection = FALSE
    /\ connectionStartNodeId = NoNode
    /\ isDraggingNodes = FALSE
    /\ isBoxSelecting = FALSE
    /\ boxSelectionStart = <<0, 0>>
    /\ regStr = GenerateRegex(nodes, connections)
    /\ phase = "session"
    /\ lastOp = "Init"
    /\ preGraph = [nodes |-> nodes, connections |-> connections, nextNodeId |-> nextNodeId]
    /\ inUnit = FALSE
    /\ everIssued = nextNodeId
    /\ saveCount = 0
    /\ stepCount = 0
    /\ InitPlayground
    /\ InitProtoVars

MayStepClip == stepCount < ClipMaxSteps

NextClip ==
    \/ MayStepClip /\ CopyToClipboard
    \/ MayStepClip /\ Cut
    \/ MayStepClip /\ PasteFromClipboard(ClipPasteAt)
    \/ MayStepClip /\ Undo

SpecClip == InitClip /\ [][NextClip]_vars

-----------------------------------------------------------------------------
(* The selection session: a project with overlapping nodes was loaded and some
   of its nodes were selected with the selection box; then left presses with
   and without Shift, drags and releases *)

\* The i-th node of a loaded graph: id i - 1; each node overlaps the next.
SelNode(i, sel) ==
    [NewNode(i - 1, ClipKindOrder[((i - 1) % Len(ClipKindOrder)) + 1],
             100 * i, 300) EXCEPT !.selected = sel]

\* Node lists of 1 .. SelMaxNodes nodes, any of them selected.
SelNodeLists ==
    UNION {{[i \in 1..n |-> SelNode(i, f[i])] : f \in [1..n -> BOOLEAN]} :
              n \in 1..SelMaxNodes}

\* Mouse positions: over the first and the second node, over no node, over the
\* first node only, over the second and the third node.
SelPtOrder == << <<220, 320>>, <<50, 200>>, <<120, 320>>, <<320, 320>> >>
SelPts == {SelPtOrder[i] : i \in 1..Min(NumSelPts, Len(SelPtOrder))}

InitSel ==
    /\ nodes \in SelNodeLists
    /\ connections = <<>>
    /\ nextNodeId = Len(nodes)
    /\ undoStack = <<>>
    /\ redoStack = <<>>
    /\ clipboard = EmptyClipboard
    /\ editingNodeId = NoNode
    /\ isCreatingConnection = FALSE
    /\ connectionStartNodeId = NoNode
    /\ isDraggingNodes = FALSE
    /\ isBoxSelecting = FALSE
    /\ boxSelectionStart = <<0, 0>>
    /\ regStr = GenerateRegex(nodes, connections)
    /\ phase = "session"
    /\ lastOp = "Init"
    /\ preGraph = [nodes |-> nodes, connections |-> connections, nextNodeId |-> nextNodeId]
    /\ inUnit = FALSE
    /\ everIssued = nextNodeId
    /\ saveCount = 0
    /\ stepCount = 0
    /\ InitPlayground
    /\ InitProtoVars

MayStepSel == stepCount < SelMaxSteps

NextSel ==
    \/ \E m \in SelPts, shift \in BOOLEAN : MayStepSel /\ LeftPress(m, shift)
    \/ \E m \in SelPts : MayStepSel /\ Drag(m)
    \/ \E m \in SelPts : MayStepSel /\ LeftRelease(m)

SpecSel == InitSel /\ [][NextSel]_vars

-----------------------------------------------------------------------------
(* The template session: every template button, and Undo, on a loaded graph *)

InitTpl ==
    /\ nodes \in SelNodeLists \union {<<>>}
    /\ connections = <<>>
    /\ nextNodeId = Len(nodes)
    /\ undoStack = <<>>
    /\ redoStack = <<>>
    /\ clipboard = EmptyClipboard
    /\ editingNodeId = NoNode
    /\ isCreatingConnection = FALSE
    /\ connectionStartNodeId = NoNode
    /\ isDraggingNodes = FALSE
    /\ isBoxSelecting = FALSE
    /\ boxSelectionStart = <<0, 0>>
    /\ regStr = GenerateRegex(nodes, connections)
    /\ phase = "session"
    /\ lastOp = "Init"
    /\ preGraph = [nodes |-> nodes, connections |-> connections, nextNodeId |-> nextNodeId]
    /\ inUnit = FALSE
    /\ everIssued = nextNodeId
    /\ saveCount = 0
    /\ stepCount = 0
    /\ InitPlayground
    /\ InitProtoVars

MayStepTpl == stepCount < TplMaxSteps

NextTpl ==
    \/ \E t \in TemplateTypes : MayStepTpl /\ AddTemplate(t)
    \/ MayStepTpl /\ Undo

SpecTpl == InitTpl /\ [][NextTpl]_vars

-----------------------------------------------------------------------------
(* The debugging session: the playground and the debugger beside graph edits *)
(* on a loaded chain                                                          *)

DbgKindOrder == <<"NODE_DIGIT", "NODE_ONE_OR_MORE", "NODE_SYMBOL">>

DbgNode(i, sel) == [NewNode(i - 1, DbgKindOrder[i], 100 + SpacingX * (i - 1), 300) EXCEPT !.selected = sel]

\* The chains digit -> one-or-more -> "@" cut after 1..DbgMaxNodes nodes, with
\* every choice of selected nodes.
DbgNodeLists ==
    UNION {{[i \in 1..n |-> DbgNode(i, f[i])] : f \in [1..n -> BOOLEAN]} :
              n \in 1..Min(DbgMaxNodes, Len(DbgKindOrder))}

DbgChain(n) == [i \in 1..(n - 1) |-> NewConnection(i - 1, i)]

\* The playground text the session starts with (ERASE, then five keys).
DbgText == <<"a", "1", "2", "-", "3">>
\* A key typed into the playground.
DbgKey == "7"
\* The toolbar button pressed in the debugging session.
DbgAddKind == "NODE_DIGIT"

InitDbg ==
    /\ nodes \in DbgNodeLists
    /\ connections = DbgChain(Len(nodes))
    /\ nextNodeId = Len(nodes)
    /\ undoStack = <<>>
    /\ redoStack = <<>>
    /\ clipboard = EmptyClipboard
    /\ editingNodeId = NoNode
    /\ isCreatingConnection = FALSE
    /\ connectionStartNodeId = NoNode
    /\ isDraggingNodes = FALSE
    /\ isBoxSelecting = FALSE
    /\ boxSelectionStart = <<0, 0>>
    /\ regStr = GenerateRegex(nodes, connections)
    /\ phase = "session"
    /\ lastOp = "Init"
    /\ preGraph = [nodes |-> nodes, connections |-> connections, nextNodeId |-> nextNodeId]
    /\ inUnit = FALSE
    /\ everIssued = nextNodeId
    /\ saveCount = 0
    /\ stepCount = 0
    /\ showPlayground = FALSE
    /\ isDebugging = FALSE
    /\ playgroundText = DbgText
    /\ currentDebugMatches = <<>>
    /\ currentDebugMatchIndex = 0
    /\ InitProtoVars

MayStepDbg == stepCount < DbgMaxSteps

NextDbg ==
    \/ MayStepDbg /\ TogglePlayground
    \/ MayStepDbg /\ ToggleDebug
    \/ MayStepDbg /\ Erase
    \/ MayStepDbg /\ PlaygroundType(DbgKey)
    \/ MayStepDbg /\ PlaygroundBackspace
    \/ MayStepDbg /\ DebugPrev
    \/ MayStepDbg /\ DebugNext
    \/ MayStepDbg /\ DeleteSelected
    \/ MayStepDbg /\ Undo
    \/ MayStepDbg /\ Redo
    \/ MayStepDbg /\ nextNodeId <= DbgMaxNodes /\ ButtonAddNode(DbgAddKind)

SpecDbg == InitDbg /\ [][NextDbg]_vars

-----------------------------------------------------------------------------
(* The loading session: load commands beside node buttons, Undo and Redo *)

LoadKinds == {"NODE_START", "NODE_DIGIT"}

\* Node lines with the ids 0, 1, ... as SaveProject writes them.
LoadNodeLists ==
    UNION {{[i \in 1..n |-> NewNode(i - 1, f[i], 100 + SpacingX * (i - 1), 300)] :
               f \in [1..n -> LoadKinds]} : n \in 0..LoadMaxNodes}

\* No connection line or one; the id n belongs to no node of an n-node file.
LoadConnLists(n) ==
    {<<>>} \union {<<NewConnection(p[1], p[2])>> : p \in {q \in (0..n) \X (0..n) : q[1] # q[2]}}

\* Files that load, files with another header, and paths without a usable file.
LoadFiles ==
    UNION {{ProjectFile(TRUE, TRUE, h, ns, cs, Len(ns)) : cs \in LoadConnLists(Len(ns)),
                h \in IF Len(ns) = 1 THEN {FormatHeader, "VREGEX_2.0"} ELSE {FormatHeader}} :
              ns \in LoadNodeLists}
    \union {ProjectFile(FALSE, FALSE, "", <<>>, <<>>, 0),
            ProjectFile(TRUE, FALSE, FormatHeader, <<>>, <<>>, 0),
            ProjectFile(TRUE, TRUE, "", <<>>, <<>>, 0)}

MayStepLoad == stepCount < LoadMaxSteps

NextLoad ==
    \/ \E f \in LoadFiles : MayStepLoad /\ LoadProject(f)
    \/ MayStepLoad /\ nextNodeId < MaxNextId /\ ButtonAddNode("NODE_DIGIT")
    \/ MayStepLoad /\ Undo
    \/ MayStepLoad /\ Redo

SpecLoad == InitSession /\ [][NextLoad]_vars

-----------------------------------------------------------------------------
(* The text-edit session: one toolbar button, presses on the new node, Enter, *)
(* typing, Undo and Redo                                                      *)

\* The toolbar button pressed and the point of the canvas clicked: on the
\* nodes the buttons create.
EditKind == ButtonOrder[1]
EditPt == MouseOrder[1]

MayStepEdit == stepCount < EditMaxSteps

NextEdit ==
    \/ MayStepEdit /\ nextNodeId < MaxNextId /\ ButtonAddNode(EditKind)
    \/ MayStepEdit /\ LeftPress(EditPt, FALSE)
    \/ MayStepEdit /\ LeftRelease(EditPt)
    \/ MayStepEdit /\ EnterToEdit
    \/ \E c \in EditChars : MayStepEdit /\ MayType /\ TypeChar(c)
    \/ MayStepEdit /\ FinishEditKey
    \/ MayStepEdit /\ Undo
    \/ MayStepEdit /\ Redo

SpecEdit == InitSession /\ [][NextEdit]_vars

-----------------------------------------------------------------------------
(* Calls of GenerateRegex on long chains: START -> n1 -> n2 -> ... *)

ChainKindOrder == <<"NODE_DIGIT", "NODE_WORD", "NODE_SYMBOL">>

\* The i-th node of a chain: START first, then the kinds of ChainKindOrder in turn.
ChainNode(i) ==
    NewNode(i - 1, IF i = 1 THEN "NODE_START" ELSE ChainKindOrder[((i - 2) % Len(ChainKindOrder)) + 1],
            100, 300)

\* The connections i-1 -> i of a chain of n nodes, stored front to back or
\* back to front.
ChainConns(n, forward) ==
    [k \in 1..(n - 1) |-> IF forward THEN NewConnection(k - 1, k)
                          ELSE NewConnection(n - 1 - k, n - k)]

InitChain ==
    /\ \E n \in 1..ChainMax, forward \in BOOLEAN :
          /\ nodes = [i \in 1..n |-> ChainNode(i)]
          /\ connections = ChainConns(n, forward)
    /\ nextNodeId = Len(nodes)
    /\ undoStack = <<>>
    /\ redoStack = <<>>
    /\ clipboard = EmptyClipboard
    /\ editingNodeId = NoNode
    /\ isCreatingConnection = FALSE
    /\ connectionStartNodeId = NoNode
    /\ isDraggingNodes = FALSE
    /\ isBoxSelecting = FALSE
    /\ boxSelectionStart = <<0, 0>>
    /\ regStr = <<>>
    /\ phase = "input"
    /\ lastOp = "Init"
    /\ preGraph = [nodes |-> nodes, connections |-> connections, nextNodeId |-> nextNodeId]
    /\ inUnit = FALSE
    /\ everIssued = nextNodeId
    /\ saveCount = 0
    /\ stepCount = 0
    /\ InitPlayground
    /\ InitProtoVars

SpecChain == InitChain /\ [][NextLin]_vars

-----------------------------------------------------------------------------
(* The earliest prototype (src/unnamed/part_000): its own translation unit, *)
(* with the same globals nodes, connections, nextNodeId,                    *)
(* isCreatingConnection and connectionStartNodeId, plus selectedNodeId and  *)
(* mouseOffset.  A prototype Node has isDragging and no selected flag.      *)

\* The prototype session adds nodes until nextNodeId reaches this.
ProtoMaxId == 3
\* The prototype session runs at most this many frames with an input.
ProtoMaxSteps == 5
\* n.rect = { x, y, 140, 60 }.
ProtoNodeW == 140
ProtoNodeH == 60

\* The switch of the prototype's AddNode.
ProtoRegex(type) ==
    CASE type = "NODE_START"      -> <<"^">>
      [] type = "NODE_TEXT"       -> <<"[", "a", "-", "z", "A", "-", "Z", "]", "+">>
      [] type = "NODE_DIGIT"      -> <<"\\", "d", "+">>
      [] type = "NODE_WHITESPACE" -> <<"\\", "s">>
      [] type = "NODE_ANY"        -> <<".">>
      [] type = "NODE_WORD"       -> <<"\\", "w", "+">>
      [] type = "NODE_SYMBOL"     -> <<"@">>

\* The Node the prototype's AddNode builds (title and color are display only).
ProtoNewNode(id, type, x, y) ==
    [id |-> id, type |-> type, regexValue |-> ProtoRegex(type), pos |-> <<x, y>>,
     isDragging |-> FALSE]

\* The toolbar buttons pressed in the prototype session.
ProtoKinds == {"NODE_TEXT", "NODE_DIGIT"}
\* centerScreenWorld of the 1200 x 800 window with the camera as initialised.
ProtoCentre == <<600, 400>>
\* Mouse positions: on the START node, on a node at the centre, on the grid.
ProtoPts == {<<110, 310>>, <<610, 410>>, <<900, 700>>}

ProtoPointInRect(m, n) ==
    /\ m[1] >= n.pos[1] /\ m[1] < n.pos[1] + ProtoNodeW
    /\ m[2] >= n.pos[2] /\ m[2] < n.pos[2] + ProtoNodeH

\* for (int i = nodes.size() - 1; i >= 0; i--): the last node under m (0: none).
ProtoTopHit(ns, m) ==
    IF \E i \in 1..Len(ns) : ProtoPointInRect(m, ns[i])
    THEN CHOOSE i \in 1..Len(ns) :
            ProtoPointInRect(m, ns[i]) /\ \A j \in (i + 1)..Len(ns) : ~ProtoPointInRect(m, ns[j])
    ELSE 0

\* for (const auto& node : nodes): the first node under m whose id is not
\* except (0: none).
ProtoFirstHit(ns, m, except) ==
    IF \E i \in 1..Len(ns) : ProtoPointInRect(m, ns[i]) /\ ns[i].id # except
    THEN CHOOSE i \in 1..Len(ns) :
            /\ ProtoPointInRect(m, ns[i]) /\ ns[i].id # except
            /\ \A j \in 1..(i - 1) : ~(ProtoPointInRect(m, ns[j]) /\ ns[j].id # except)
    ELSE 0

RECURSIVE ProtoRevisits(_, _, _)
\* while (foundNext) has no counter: connections does not change during the
\* loop, so once currentNodeId takes a value it had before (seen), the loop
\* repeats the same passes with foundNext true for ever.
ProtoRevisits(cs, cur, seen) ==
    /\ FirstFrom(cs, cur) # 0
    /\ \/ NextId(cs, cur) \in seen
       \/ ProtoRevisits(cs, NextId(cs, cur), seen \cup {NextId(cs, cur)})

\* The prototype's GenerateRegex does not return on this graph.
ProtoLoops(ns, cs) ==
    /\ FirstStart(ns) # 0
    /\ ProtoRevisits(cs, ns[FirstStart(ns)].id, {ns[FirstStart(ns)].id})

RECURSIVE ProtoWalk(_, _, _)
\* What while (foundNext) appends to ss from currentNodeId cur, when it ends.
ProtoWalk(ns, cs, cur) ==
    IF FirstFrom(cs, cur) = 0 THEN <<>>
    ELSE Emit(ns, NextId(cs, cur)) \o ProtoWalk(ns, cs, NextId(cs, cur))

MissingStart == <<"M","i","s","s","i","n","g"," ","S","T","A","R","T"," ","n","o","d","e">>

\* The prototype's GenerateRegex, on the graphs it returns on.
ProtoGenerateRegex(ns, cs) ==
    IF FirstStart(ns) = 0 THEN MissingStart
    ELSE ns[FirstStart(ns)].regexValue \o ProtoWalk(ns, cs, ns[FirstStart(ns)].id)

\* The draw half of a frame: std::string regexResult = GenerateRegex().  When
\* the call does not return, the frame loop stays in it ("looping").
ProtoEndFrame ==
    IF ProtoLoops(nodes', connections')
    THEN /\ phase' = "looping"
         /\ regStr' = regStr
    ELSE /\ phase' = "proto"
         /\ regStr' = ProtoGenerateRegex(nodes', connections')

\* What every frame of the prototype leaves alone, and its draw half.
ProtoFrame(op) ==
    /\ phase = "proto"
    /\ stepCount < ProtoMaxSteps
    /\ NoteStep(op)
    /\ UNCHANGED <<historyVars, clipboard, editingNodeId, isDraggingNodes, isBoxSelecting,
                   boxSelectionStart, playgroundVars>>
    /\ ProtoEndFrame

\* A toolbar button: AddNode(type, centerScreenWorld.x, centerScreenWorld.y).
ProtoAddNode(type) ==
    /\ nextNodeId < ProtoMaxId
    /\ nodes' = Append(nodes, ProtoNewNode(AllocId(nextNodeId), type, ProtoCentre[1], ProtoCentre[2]))
    /\ nextNodeId' = AfterAlloc(nextNodeId)
    /\ UNCHANGED <<connections, isCreatingConnection, connectionStartNodeId, protoVars>>
    /\ ProtoFrame("ProtoAddNode")

\* IsMouseButtonPressed(MOUSE_LEFT_BUTTON) at m: select and start dragging the
\* last node under m; the drag block of the same frame leaves it where it is.
ProtoLeftPress(m) ==
    /\ LET hit == ProtoTopHit(nodes, m)
       IN  IF hit # 0
           THEN /\ selectedNodeId' = nodes[hit].id
                /\ nodes' = [nodes EXCEPT ![hit].isDragging = TRUE]
                /\ mouseOffset' = <<m[1] - nodes[hit].pos[1], m[2] - nodes[hit].pos[2]>>
           ELSE /\ selectedNodeId' = NoNode
                /\ UNCHANGED <<nodes, mouseOffset>>
    /\ UNCHANGED <<connections, nextNodeId, isCreatingConnection, connectionStartNodeId>>
    /\ ProtoFrame("ProtoLeftPress")

\* IsMouseButtonReleased(MOUSE_LEFT_BUTTON).
ProtoLeftRelease ==
    /\ \E i \in 1..Len(nodes) : nodes[i].isDragging
    /\ nodes' = [i \in 1..Len(nodes) |-> [nodes[i] EXCEPT !.isDragging = FALSE]]
    /\ UNCHANGED <<connections, nextNodeId, isCreatingConnection, connectionStartNodeId,
                   protoVars>>
    /\ ProtoFrame("ProtoLeftRelease")

\* A frame with the mouse at m while a node is dragged.
ProtoDrag(m) ==
    /\ \E i \in 1..Len(nodes) : nodes[i].id = selectedNodeId /\ nodes[i].isDragging
    /\ nodes' = [i \in 1..Len(nodes) |->
                    IF nodes[i].id = selectedNodeId /\ nodes[i].isDragging
                    THEN [nodes[i] EXCEPT !.pos = <<m[1] - mouseOffset[1], m[2] - mouseOffset[2]>>]
                    ELSE nodes[i]]
    /\ nodes' # nodes
    /\ UNCHANGED <<connections, nextNodeId, isCreatingConnection, connectionStartNodeId,
                   protoVars>>
    /\ ProtoFrame("ProtoDrag")

\* IsMouseButtonPressed(MOUSE_RIGHT_BUTTON) at m.
ProtoRightPress(m) ==
    /\ ProtoFirstHit(nodes, m, NoNode) # 0
    /\ isCreatingConnection' = TRUE
    /\ connectionStartNodeId' = nodes[ProtoFirstHit(nodes, m, NoNode)].id
    /\ UNCHANGED <<graphVars, protoVars>>
    /\ ProtoFrame("ProtoRightPress")

\* connections after the release on the node with id target: the connections
\* leaving the source are erased, then the new one is pushed.
ProtoConnect(cs, start, target) ==
    Append(SelectSeq(cs, LAMBDA c : c.fromNodeId # start), NewConnection(start, target))

\* IsMouseButtonReleased(MOUSE_RIGHT_BUTTON) && isCreatingConnection, at m.
ProtoRightRelease(m) ==
    /\ isCreatingConnection
    /\ isCreatingConnection' = FALSE
    /\ LET hit == ProtoFirstHit(nodes, m, connectionStartNodeId)
       IN  connections' = IF hit # 0
                          THEN ProtoConnect(connections, connectionStartNodeId, nodes[hit].id)
                          ELSE connections
    /\ connectionStartNodeId' = NoNode
    /\ UNCHANGED <<nodes, nextNodeId, protoVars>>
    /\ ProtoFrame(IF ProtoFirstHit(nodes, m, connectionStartNodeId) # 0
                  THEN "ProtoConnect" ELSE "ProtoRightReleaseMiss")

\* IsKeyPressed(KEY_DELETE) && selectedNodeId != -1: the connections of the
\* selected node go; the node goes unless it is the START node.
ProtoDelete ==
    /\ selectedNodeId # NoNode
    /\ connections' = SelectSeq(connections, LAMBDA c : c.fromNodeId # selectedNodeId
                                                        /\ c.toNodeId # selectedNodeId)
    /\ LET i == FirstWithId(nodes, selectedNodeId)
       IN  IF i # 0 /\ nodes[i].type # "NODE_START"
           THEN /\ nodes' = SubSeq(nodes, 1, i - 1) \o SubSeq(nodes, i + 1, Len(nodes))
                /\ selectedNodeId' = NoNode
           ELSE UNCHANGED <<nodes, selectedNodeId>>
    /\ UNCHANGED <<nextNodeId, isCreatingConnection, connectionStartNodeId, mouseOffset>>
    /\ ProtoFrame("ProtoDelete")

\* main() of the prototype up to the frame loop: AddNode(NODE_START, 100, 300).
InitProto ==
    /\ nodes = <<ProtoNewNode(0, "NODE_START", 100, 300)>>
    /\ connections = <<>>
    /\ nextNodeId = AfterAlloc(0)
    /\ undoStack = <<>>
    /\ redoStack = <<>>
    /\ clipboard = EmptyClipboard
    /\ editingNodeId = NoNode
    /\ isCreatingConnection = FALSE
    /\ connectionStartNodeId = NoNode
    /\ isDraggingNodes = FALSE
    /\ isBoxSelecting = FALSE
    /\ boxSelectionStart = <<0, 0>>
    /\ regStr = ProtoGenerateRegex(nodes, connections)
    /\ phase = "proto"
    /\ lastOp = "Init"
    /\ preGraph = [nodes |-> nodes, connections |-> connections, nextNodeId |-> nextNodeId]
    /\ inUnit = FALSE
    /\ everIssued = nextNodeId
    /\ saveCount = 0
    /\ stepCount = 0
    /\ InitPlayground
    /\ InitProtoVars

NextProto ==
    \/ \E type \in ProtoKinds : ProtoAddNode(type)
    \/ \E m \in ProtoPts : ProtoLeftPress(m)
    \/ ProtoLeftRelease
    \/ \E m \in ProtoPts : ProtoDrag(m)
    \/ \E m \in ProtoPts : ProtoRightPress(m)
    \/ \E m \in ProtoPts : ProtoRightRelease(m)
    \/ ProtoDelete

SpecProto == InitProto /\ [][NextProto]_vars

-----------------------------------------------------------------------------
(* Properties of the history and of node identity (Spec, SpecHist) *)

\* Handlers that call SaveState, and those that allocate node ids.
SaveOps == {"AddNode", "BeginDrag", "Connect", "BeginEdit", "FinishEdit", "Delete", "Cut",
            "Paste", "Template"}
AllocOps == {"AddNode", "Paste", "Template"}
RedoOps == {"Redo", "UndoRedo", "RedoEmpty"}

\* C1: when an Undo that restored a snapshot is followed at once by Redo, the
\* graph is again the graph the Undo started from: the same nodes (id, kind,
\* fragment, label, position), the same connections in order, the same nextNodeId.
C1_UndoRedoRoundTrip == lastOp = "UndoRedo" => Content(Current) = Content(preGraph)

\* An added node was connected, and the connection was undone and redone.
C1_Witness == lastOp = "UndoRedo" /\ Len(nodes) >= 2 /\ connections # <<>>

\* C2: from a recorded mutation until the next Undo or Redo, the top of the
\* undo stack is the graph as it was immediately before that mutation (so that
\* one Undo restores it).
C2_TopIsPreMutation ==
    (inUnit /\ undoStack # <<>>) => Content(Last(undoStack)) = Content(preGraph)

\* C3: both ends of every connection are ids of nodes of the graph.
C3_NoDanglingEdges ==
    \A k \in 1..Len(connections) :
        /\ connections[k].fromNodeId \in NodeIds(nodes)
        /\ connections[k].toNodeId \in NodeIds(nodes)

\* C4: the node ids are pairwise distinct and each is below nextNodeId.
C4_IdsDistinct ==
    /\ \A i, j \in 1..Len(nodes) : nodes[i].id = nodes[j].id => i = j
    /\ \A i \in 1..Len(nodes) : nodes[i].id < nextNodeId

\* A paste added a third node, after an add and a copy.
C4_Witness == lastOp = "Paste" /\ Len(nodes) >= 3 /\ Len(undoStack) >= 2

\* C5: a handler that allocates node ids (toolbar button, paste, template) gives
\* no id that an earlier allocation of the session gave.
C5_IdsNeverReused ==
    [][lastOp' \in AllocOps =>
          \A id \in NodeIds(nodes') \ NodeIds(nodes) : id >= everIssued]_vars

\* C8: a handler that calls SaveState leaves on top of the undo stack a snapshot
\* with the content of the graph it started from and leaves the redo stack
\* empty; a Redo that comes after a recorded mutation with no Undo or Redo in
\* between changes neither the graph nor the stacks.
C8_RecordSemantics ==
    [][/\ lastOp' \in SaveOps =>
             /\ redoStack' = <<>>
             /\ undoStack' # <<>>
             /\ Content(Last(undoStack')) = Content(Current)
       /\ ((inUnit \/ lastOp \in SaveOps) /\ lastOp' \in RedoOps) =>
             /\ lastOp' = "RedoEmpty"
             /\ UNCHANGED <<graphVars, historyVars>>]_vars

\* Redo found nothing to restore after an Undo and a later recorded mutation.
C8_Witness == lastOp = "RedoEmpty" /\ inUnit /\ Len(undoStack) < saveCount

\* C9: the undo stack never holds more than HistoryCap snapshots, and after
\* HistoryCap + 1 button presses (node ids 1 .. HistoryCap + 1 allocated) it holds
\* exactly HistoryCap: the graphs before the presses 2 .. HistoryCap + 1, oldest
\* first.  The graph before press j is the first j nodes with nextNodeId = j.
C9_FifoEviction ==
    /\ Len(undoStack) <= HistoryCap
    /\ (saveCount = HistoryCap + 1 /\ nextNodeId = HistoryCap + 2) =>
          /\ Len(undoStack) = HistoryCap
          /\ \A i \in 1..HistoryCap :
                undoStack[i] = AppState(SubSeq(nodes, 1, i + 1), <<>>, i + 1)

\* The press after the one that filled the stack has just run.
C9_Witness == saveCount = HistoryCap + 1 /\ nextNodeId = HistoryCap + 2 /\ lastOp = "AddNode"

\* C10: neither stack ever holds more than HistoryCap snapshots.
C10_StacksBounded == Len(undoStack) <= HistoryCap /\ Len(redoStack) <= HistoryCap

\* Undo emptied a full undo stack onto the redo stack.
C10_Witness == Len(redoStack) = HistoryCap /\ undoStack = <<>> /\ lastOp = "Undo"

-----------------------------------------------------------------------------
(* Properties of GenerateRegex (SpecLin) *)

RefMin(S) == CHOOSE x \in S : \A y \in S : x <= y

\* The connections leaving id.
RefOutgoing(cs, id) == {k \in 1..Len(cs) : cs[k].fromNodeId = id}

\* The entry node: the first START node; with none, the first node that no
\* connection points at; 0 with neither.
RefEntry(ns, cs) ==
    LET starts == {i \in 1..Len(ns) : ns[i].type = "NODE_START"}
        roots == {i \in 1..Len(ns) : \A k \in 1..Len(cs) : cs[k].toNodeId # ns[i].id}
    IN  IF starts # {} THEN RefMin(starts) ELSE IF roots # {} THEN RefMin(roots) ELSE 0

RECURSIVE RefPath(_, _, _)
\* The ids on the path from id that follows the first connection leaving the
\* current id, for at most `moves` moves.
RefPath(cs, id, moves) ==
    IF moves = 0 \/ RefOutgoing(cs, id) = {} THEN <<id>>
    ELSE <<id>> \o RefPath(cs, cs[RefMin(RefOutgoing(cs, id))].toNodeId, moves - 1)

\* The fragment of the node with that id; nothing for an id no node has.
RefFragment(ns, id) ==
    LET hits == {i \in 1..Len(ns) : ns[i].id = id}
    IN  IF hits = {} THEN <<>> ELSE ns[RefMin(hits)].regexValue

RECURSIVE RefConcat(_, _, _)
\* The fragments along path[i..], concatenated.
RefConcat(ns, path, i) ==
    IF i > Len(path) THEN <<>> ELSE RefFragment(ns, path[i]) \o RefConcat(ns, path, i + 1)

RECURSIVE Repeat(_, _)
Repeat(s, n) == IF n = 0 THEN <<>> ELSE s \o Repeat(s, n - 1)

TwoCycleAt(a, b) ==
    /\ Len(nodes) = 2 /\ a # b
    /\ nodes[a].type = "NODE_START"
    /\ nodes[b].type # "NODE_START" \/ a < b
    /\ Len(connections) = 2
    /\ Range(connections) = {NewConnection(nodes[a].id, nodes[b].id),
                             NewConnection(nodes[b].id, nodes[a].id)}

\* C7: on the two-node cycle A -> B -> A with entry A the loop ends after
\* SafetyLimit passes and the result is A's fragment followed by SafetyLimit / 2
\* times (B's fragment, A's fragment): non-empty and finite.
C7_CycleAlternates ==
    \A a, b \in 1..2 :
        (phase = "done" /\ TwoCycleAt(a, b)) =>
            /\ LoopPasses(nodes, connections) = SafetyLimit
            /\ regStr # <<>>
            /\ regStr = nodes[a].regexValue
                        \o Repeat(nodes[b].regexValue \o nodes[a].regexValue, SafetyLimit \div 2)

\* The cycle START -> digit -> START was linearized.
C7_Witness ==
    /\ phase = "done"
    /\ TwoCycleAt(1, 2)
    /\ nodes[2].type = "NODE_DIGIT"
    /\ Len(regStr) = 1 + (SafetyLimit \div 2) * 3

\* C7 as stated: on that cycle the result is the entry node's fragment repeated
\* some number of times up to the bound.
C7_EntryFragmentRepeated ==
    \A a, b \in 1..2 :
        (phase = "done" /\ TwoCycleAt(a, b)) =>
            \E n \in 1..(SafetyLimit + 1) : regStr = Repeat(nodes[a].regexValue, n)

-----------------------------------------------------------------------------
(* Properties of history underflow, deletion, editing and the clipboard (Spec) *)

UndoOps == {"Undo", "UndoEmpty"}

\* C11: Undo with an empty undo stack, and Redo with an empty redo stack, run to
\* completion and leave nodes, connections, nextNodeId and both stacks as they
\* were.
C11_UnderflowNoOp ==
    [][/\ (undoStack = <<>> /\ lastOp' \in UndoOps) =>
             /\ lastOp' = "UndoEmpty"
             /\ UNCHANGED <<graphVars, historyVars>>
       /\ (redoStack = <<>> /\ lastOp' \in RedoOps) =>
             /\ lastOp' = "RedoEmpty"
             /\ UNCHANGED <<graphVars, historyVars>>]_vars

\* Undo ran on an empty undo stack while the redo stack held a snapshot.
C11_Witness == lastOp = "UndoEmpty" /\ undoStack = <<>> /\ redoStack # <<>>

DeleteOps == {"Delete", "Cut"}

\* The n-th smallest element of the set of indexes S.
RefNth(S, n) == CHOOSE x \in S : Cardinality({y \in S : y < x}) = n - 1

\* s restricted to the indexes in S, in the order of s.
RefRestrict(s, S) == [n \in 1..Cardinality(S) |-> s[RefNth(S, n)]]

\* The ids of the selected nodes.
RefSelectedIds(ns) == {ns[i].id : i \in {j \in 1..Len(ns) : ns[j].selected}}

\* C12: DeleteSelected (Delete key, or the second half of Ctrl+X) removes exactly
\* the selected nodes and exactly the connections with a selected endpoint; the
\* other nodes and connections stay, in their order, and nextNodeId stays; no
\* connection that is left names a node that was removed.
C12_DeleteCascades ==
    [][lastOp' \in DeleteOps =>
          LET gone == RefSelectedIds(nodes)
              keptN == {i \in 1..Len(nodes) : ~nodes[i].selected}
              keptC == {k \in 1..Len(connections) :
                          /\ connections[k].fromNodeId \notin gone
                          /\ connections[k].toNodeId \notin gone}
          IN  /\ nodes' = RefRestrict(nodes, keptN)
              /\ connections' = RefRestrict(connections, keptC)
              /\ nextNodeId' = nextNodeId
              /\ \A k \in 1..Len(connections') :
                    /\ connections'[k].fromNodeId \notin gone
                    /\ connections'[k].toNodeId \notin gone]_vars

\* Delete removed a node together with a connection and left another node.
C12_Witness ==
    /\ lastOp = "Delete"
    /\ nodes # <<>>
    /\ Len(nodes) < Len(preGraph.nodes)
    /\ Len(connections) < Len(preGraph.connections)

\* The mouse at m is over the node the connect gesture started from and over
\* no other node.
RefOverStartOnly(m) ==
    /\ HitIndexes(nodes, m) # {}
    /\ \A i \in HitIndexes(nodes, m) : nodes[i].id = connectionStartNodeId

C16_OnlyCustomEditable ==
    \A i \in 1..Len(nodes) :
        nodes[i].type # "NODE_CUSTOM" => nodes[i].regexValue = DefaultRegex(nodes[i].type)

\* Indexes of the connections of cs whose two ends are both in ids.
RefInside(cs, ids) ==
    {k \in 1..Len(cs) : cs[k].fromNodeId \in ids /\ cs[k].toNodeId \in ids}

\* C17: Ctrl+C (and the copy half of Ctrl+X) puts in the buffer exactly the
\* selected nodes, in graph order, and exactly the connections with both ends
\* selected, in graph order; Ctrl+C changes neither the graph nor the history
\* stacks; and in every state every connection of the buffer has both ends
\* among the nodes of the buffer.
C17_CopyInducedSubgraph ==
    [][/\ lastOp' \in {"Copy", "Cut"} =>
             /\ clipboard'.nodes = RefRestrict(nodes, {i \in 1..Len(nodes) : nodes[i].selected})
             /\ clipboard'.connections =
                    RefRestrict(connections, RefInside(connections, RefSelectedIds(nodes)))
       /\ lastOp' = "Copy" => UNCHANGED <<graphVars, historyVars>>
       /\ \A k \in 1..Len(clipboard'.connections) :
             /\ clipboard'.connections[k].fromNodeId \in NodeIds(clipboard'.nodes)
             /\ clipboard'.connections[k].toNodeId \in NodeIds(clipboard'.nodes)]_vars

\* A copy took a connection between two selected nodes and left out one with
\* an unselected end.
C17_Witness ==
    /\ lastOp = "Copy"
    /\ Len(clipboard.nodes) = 2
    /\ Len(clipboard.connections) = 1
    /\ Len(connections) = 2
    /\ \E k \in 1..Len(connections) :
          /\ connections[k].fromNodeId \in NodeIds(clipboard.nodes)
          /\ connections[k].toNodeId \notin NodeIds(clipboard.nodes)

\* The id given by a paste to the buffered node with id `id`: the new node at
\* the same place in the pasted run, which starts after the first `old` nodes.
RefNewId(clip, ns, old, id) ==
    ns[old + (CHOOSE j \in 1..Len(clip.nodes) : clip.nodes[j].id = id)].id

\* C18: a paste of a buffer of n nodes and m connections appends exactly n
\* nodes, with ids that differ from each other and from the ids of all nodes
\* already there, and exactly m connections, the buffered ones with both ends
\* replaced by the new ids of the buffered nodes they name; no new connection
\* has an end at a node that was already there; the nodes already there keep
\* everything but their selected flag, and the connections already there stay.
C18_PastePreservesStructure ==
    [][lastOp' = "Paste" =>
          LET n == Len(clipboard.nodes)
              m == Len(clipboard.connections)
              old == Len(nodes)
              oldC == Len(connections)
          IN  /\ Len(nodes') = old + n
              /\ Len(connections') = oldC + m
              /\ \A i, j \in (old + 1)..(old + n) : nodes'[i].id = nodes'[j].id => i = j
              /\ \A i \in (old + 1)..(old + n) : nodes'[i].id \notin NodeIds(nodes)
              /\ \A k \in 1..m :
                    /\ connections'[oldC + k].fromNodeId =
                          RefNewId(clipboard, nodes', old, clipboard.connections[k].fromNodeId)
                    /\ connections'[oldC + k].toNodeId =
                          RefNewId(clipboard, nodes', old, clipboard.connections[k].toNodeId)
                    /\ connections'[oldC + k].fromNodeId \notin NodeIds(nodes)
                    /\ connections'[oldC + k].toNodeId \notin NodeIds(nodes)
              /\ \A i \in 1..old : [nodes'[i] EXCEPT !.selected = nodes[i].selected] = nodes[i]
              /\ SubSeq(connections', 1, oldC) = connections]_vars

\* A paste added two or more nodes and a connection between them to a graph
\* that had connections of its own.
C18_Witness ==
    /\ lastOp = "Paste"
    /\ Len(nodes) >= Len(preGraph.nodes) + 2
    /\ Len(connections) > Len(preGraph.connections)
    /\ preGraph.connections # <<>>

\* C19: a paste of a non-empty buffer pushes one snapshot, the graph as it is
\* when Ctrl+V is pressed, before it inserts anything; after the paste exactly
\* the pasted nodes are selected; and an Undo that directly follows the paste
\* brings back exactly the graph from before the paste.
C19_PasteSnapshotsAndSelects ==
    [][/\ lastOp' = "Paste" =>
             /\ clipboard.nodes # <<>>
             /\ Last(undoStack') = Current
             /\ Len(undoStack) < HistoryCap => undoStack' = Append(undoStack, Current)
             /\ {i \in 1..Len(nodes') : nodes'[i].selected} = (Len(nodes) + 1)..Len(nodes')
       /\ (lastOp = "Paste" /\ lastOp' \in UndoOps) =>
             /\ lastOp' = "Undo"
             /\ nodes' = preGraph.nodes
             /\ connections' = preGraph.connections
             /\ nextNodeId' = preGraph.nextNodeId]_vars

\* Undo took back a paste of nodes and connections into a graph in which a node
\* was selected.
C19_Witness ==
    /\ lastOp = "Undo"
    /\ Len(nodes) < Len(preGraph.nodes)
    /\ Len(connections) < Len(preGraph.connections)
    /\ \E i \in 1..Len(nodes) : nodes[i].selected

CopyOps == {"Copy", "Cut", "CutEmpty"}

\* What of a node a copy of it shares: kind, label and fragment.
RefLook(n) == <<n.type, n.title, n.regexValue>>

\* Where in the run of nodes ns[(from + 1) .. (from + n)] the node with that id is.
RefPlace(ns, from, n, id) == CHOOSE j \in 1..n : ns[from + j].id = id

\* C20: every handler other than Ctrl+C and Ctrl+X (paste, delete, the toolbar
\* buttons, connect, Undo, Redo, ...) leaves the buffer as it is; Ctrl+C and
\* Ctrl+X leave in the buffer nodes that are selected now and nothing of what it
\* held before (nothing at all when no node is selected); and the second of two
\* pastes in a row adds a copy of the same subgraph as the first, sharing no id
\* with it.
C20_BufferLifetime ==
    [][/\ lastOp' \notin CopyOps => clipboard' = clipboard
       /\ lastOp' \in CopyOps =>
             /\ Len(clipboard'.nodes) = Cardinality({i \in 1..Len(nodes) : nodes[i].selected})
             /\ \A k \in 1..Len(clipboard'.nodes) :
                    \E i \in 1..Len(nodes) : nodes[i].selected /\ clipboard'.nodes[k] = nodes[i]
             /\ \A k \in 1..Len(clipboard'.connections) :
                    \E j \in 1..Len(connections) : clipboard'.connections[k] = connections[j]
             /\ (\A i \in 1..Len(nodes) : ~nodes[i].selected) => clipboard' = EmptyClipboard
       /\ (lastOp = "Paste" /\ lastOp' = "Paste") =>
             LET n == Len(clipboard.nodes)
                 m == Len(clipboard.connections)
                 first == Len(nodes) - n
                 second == Len(nodes)
                 firstC == Len(connections) - m
                 secondC == Len(connections)
             IN  /\ Len(nodes') = second + n
                 /\ Len(connections') = secondC + m
                 /\ \A j \in 1..n : RefLook(nodes'[second + j]) = RefLook(nodes[first + j])
                 /\ \A i, j \in 1..n : nodes'[second + i].id # nodes[first + j].id
                 /\ \A k \in 1..m :
                       /\ RefPlace(nodes', second, n, connections'[secondC + k].fromNodeId)
                            = RefPlace(nodes, first, n, connections[firstC + k].fromNodeId)
                       /\ RefPlace(nodes', second, n, connections'[secondC + k].toNodeId)
                            = RefPlace(nodes, first, n, connections[firstC + k].toNodeId)]_vars

\* The one node of the buffer was pasted twice in a row: the last two nodes are
\* copies of it at the mouse positions of the two pastes (a toolbar button or a
\* template would have put its node at the centre of the view).
C20_Witness ==
    /\ lastOp = "Paste"
    /\ Len(clipboard.nodes) = 1
    /\ Len(nodes) >= 3
    /\ \A i \in {Len(nodes) - 1, Len(nodes)} :
          /\ nodes[i].pos \in MousePts
          /\ RefLook(nodes[i]) = RefLook(clipboard.nodes[1])
          /\ nodes[i].id \notin NodeIds(clipboard.nodes)
    /\ nodes[Len(nodes) - 1].id # nodes[Len(nodes)].id

\* Indexes of the selected nodes of ns.
RefSelected(ns) == {i \in 1..Len(ns) : ns[i].selected}

\* Indexes of the connections of cs with no end in ids.
RefOutside(cs, ids) ==
    {k \in 1..Len(cs) : cs[k].fromNodeId \notin ids /\ cs[k].toNodeId \notin ids}

\* C21: with a node selected, Ctrl+X leaves in the buffer what Ctrl+C alone
\* would store (the selected nodes and the connections between them), leaves
\* the graph DeleteSelected alone would leave (the unselected nodes and the
\* connections with no selected end), and pushes exactly one snapshot, the graph
\* before the cut; an Undo that directly follows brings back all nodes and
\* connections while the buffer still holds the cut subgraph.
C21_CutIsCopyThenDelete ==
    [][/\ (lastOp' = "Cut" /\ RefSelected(nodes) # {}) =>
             /\ clipboard'.nodes = RefRestrict(nodes, RefSelected(nodes))
             /\ clipboard'.connections =
                    RefRestrict(connections, RefInside(connections, RefSelectedIds(nodes)))
             /\ nodes' = RefRestrict(nodes, (1..Len(nodes)) \ RefSelected(nodes))
             /\ connections' =
                    RefRestrict(connections, RefOutside(connections, RefSelectedIds(nodes)))
             /\ nextNodeId' = nextNodeId
             /\ Len(undoStack) < HistoryCap => undoStack' = Append(undoStack, Current)
       /\ (lastOp = "Cut" /\ lastOp' \in UndoOps) =>
             /\ lastOp' = "Undo"
             /\ nodes' = preGraph.nodes
             /\ connections' = preGraph.connections
             /\ nextNodeId' = preGraph.nextNodeId
             /\ clipboard' = clipboard
             /\ clipboard'.nodes = RefRestrict(nodes', RefSelected(nodes'))
             /\ clipboard'.connections =
                    RefRestrict(connections', RefInside(connections', RefSelectedIds(nodes')))]_vars

\* Undo brought back nodes and connections that a cut had removed, and the
\* buffer holds them.
C21_Witness ==
    /\ lastOp = "Undo"
    /\ Len(nodes) > Len(preGraph.nodes)
    /\ Len(connections) > Len(preGraph.connections)
    /\ clipboard.connections # <<>>
    /\ clipboard.nodes = RefRestrict(nodes, RefSelected(nodes))

\* Kind and fragment of the nodes ns[(from + 1) .. Len(ns)], in order.
RefKindsFrom(ns, from) ==
    [j \in 1..(Len(ns) - from) |-> <<ns[from + j].type, ns[from + j].regexValue>>]

\* The steps of the email template: word-class, one-or-more, "@", word-class,
\* one-or-more, custom ".", word-class, one-or-more.
RefEmailSteps ==
    << <<"NODE_WORD", <<"\\", "w">> >>, <<"NODE_ONE_OR_MORE", <<"+">> >>,
       <<"NODE_SYMBOL", <<"@">> >>,
       <<"NODE_WORD", <<"\\", "w">> >>, <<"NODE_ONE_OR_MORE", <<"+">> >>,
       <<"NODE_CUSTOM", <<".">> >>,
       <<"NODE_WORD", <<"\\", "w">> >>, <<"NODE_ONE_OR_MORE", <<"+">> >> >>

\* C24: a template button pushes exactly one snapshot, the graph before it; it
\* appends k >= 1 nodes with the ids nextNodeId, nextNodeId + 1, ..., which no
\* node of the graph has, and k - 1 connections, the j-th from the j-th new node
\* to the next new node; nodes and connections already there stay; the email
\* template appends the 8 steps of RefEmailSteps; and an Undo that directly
\* follows brings back the graph and nextNodeId from before the template.
C24_TemplateShape ==
    [][/\ lastOp' = "Template" =>
             LET old == Len(nodes)
                 oldC == Len(connections)
                 k == Len(nodes') - old
             IN  /\ k >= 1
                 /\ Len(undoStack) < HistoryCap => undoStack' = Append(undoStack, Current)
                 /\ SubSeq(nodes', 1, old) = nodes
                 /\ SubSeq(connections', 1, oldC) = connections
                 /\ \A j \in 1..k :
                       /\ nodes'[old + j].id = nextNodeId + j - 1
                       /\ nodes'[old + j].id \notin NodeIds(nodes)
                 /\ nextNodeId' = nextNodeId + k
                 /\ Len(connections') = oldC + k - 1
                 /\ \A j \in 1..(k - 1) :
                       connections'[oldC + j] =
                           [fromNodeId |-> nodes'[old + j].id, toNodeId |-> nodes'[old + j + 1].id]
       /\ AddTemplate("TPL_EMAIL") => RefKindsFrom(nodes', Len(nodes)) = RefEmailSteps
       /\ (lastOp = "Template" /\ lastOp' \in UndoOps) =>
             /\ lastOp' = "Undo"
             /\ nodes' = preGraph.nodes
             /\ connections' = preGraph.connections
             /\ nextNodeId' = preGraph.nextNodeId]_vars

\* Undo took back the 8 nodes and 7 connections of a template at once.
C24_Witness ==
    /\ lastOp = "Undo"
    /\ Len(preGraph.nodes) = Len(nodes) + 8
    /\ Len(preGraph.connections) = Len(connections) + 7
    /\ preGraph.nextNodeId = nextNodeId + 8

-----------------------------------------------------------------------------
(* Properties of the templates (SpecTpl) *)

RECURSIVE RefJoinFrom(_, _)
\* The fragments of the nodes ns[i..], in order, concatenated.
RefJoinFrom(ns, i) ==
    IF i > Len(ns) THEN <<>> ELSE ns[i].regexValue \o RefJoinFrom(ns, i + 1)

RefW == <<"\\", "w", "+">>
RefDot == <<"\\", ".">>
RefD(n) == <<"\\", "d", "{">> \o n \o <<"}">>
RefOctet == RefD(<<"1", ",", "3">>)

\* The pattern written in the comment beside each case of AddTemplate's switch.
RefDocumented(t) ==
    CASE t = "TPL_EMAIL" -> RefW \o <<"@">> \o RefW \o RefDot \o RefW
      [] t = "TPL_DATE_ISO" -> RefD(<<"4">>) \o <<"-">> \o RefD(<<"2">>) \o <<"-">> \o RefD(<<"2">>)
      [] t = "TPL_PHONE_US" -> RefD(<<"3">>) \o <<"-">> \o RefD(<<"3">>) \o <<"-">> \o RefD(<<"4">>)
      [] t = "TPL_URL_SIMPLE" ->
            <<"h", "t", "t", "p", "s", "?", ":", "/", "/">> \o RefW \o RefDot \o RefW
      [] t = "TPL_IP_V4" ->
            RefOctet \o RefDot \o RefOctet \o RefDot \o RefOctet \o RefDot \o RefOctet

\* C25: the fragments of the nodes a template creates, concatenated in creation
\* order, are the pattern written in the comment beside the template.
C25_TemplatesMatchComments ==
    [][\A t \in TemplateTypes :
          AddTemplate(t) => RefJoinFrom(nodes', Len(nodes) + 1) = RefDocumented(t)]_vars

-----------------------------------------------------------------------------
(* Properties of the playground and the match debugger (SpecDbg) *)

\* C26: whenever debugging is on, currentDebugMatches is the analysis of the
\* pattern of the current graph against the current playground text.
C26_MatchesTrackPatternAndText ==
    isDebugging => currentDebugMatches = MatchesOf(GenerateRegex(nodes, connections), playgroundText)

-----------------------------------------------------------------------------
(* Properties of selection (SpecSel) *)

RefMax(S) == CHOOSE x \in S : \A y \in S : y <= x

\* C22: a left press on a node (the topmost one under the mouse) with Shift
\* held flips the selected flag of that node and of no other; without Shift, on
\* a node that is not selected, it leaves that node selected and no other;
\* without Shift, on a node that is selected, it leaves every selected flag as
\* it was.
C22_ClickSelection ==
    [][\A m \in SelPts, shift \in BOOLEAN :
          (HitIndexes(nodes, m) # {} /\ LeftPress(m, shift)) =>
              LET i == RefMax(HitIndexes(nodes, m))
              IN  /\ Len(nodes') = Len(nodes)
                  /\ \A j \in 1..Len(nodes) :
                        nodes'[j].selected =
                            IF shift THEN (IF j = i THEN ~nodes[i].selected ELSE nodes[j].selected)
                            ELSE IF ~nodes[i].selected THEN j = i
                            ELSE nodes[j].selected]_vars

\* A press on a node left a selection of two or more nodes as it was: the press
\* was without Shift on one of the selected nodes.
C22_Witness ==
    /\ lastOp = "BeginDrag"
    /\ Cardinality(RefSelected(nodes)) >= 2
    /\ RefSelected(nodes) = RefSelected(preGraph.nodes)

\* The rectangle with corners a and b overlaps the rectangle of node n.
RefOverlaps(a, b, n) ==
    /\ Min(a[1], b[1]) < n.pos[1] + NodeW /\ Max(a[1], b[1]) > n.pos[1]
    /\ Min(a[2], b[2]) < n.pos[2] + NodeH /\ Max(a[2], b[2]) > n.pos[2]

\* C23: releasing the left button while a selection box is open selects every
\* node whose rectangle overlaps the box and clears no selected flag; the press
\* that opens the box (a press over no node) clears the selection when Shift is
\* not held and leaves every flag as it is when Shift is held.
C23_BoxSelectOnlyAdds ==
    [][/\ \A m \in SelPts :
             (isBoxSelecting /\ LeftRelease(m)) =>
                 /\ Len(nodes') = Len(nodes)
                 /\ \A j \in 1..Len(nodes) :
                       nodes'[j].selected =
                           (nodes[j].selected \/ RefOverlaps(boxSelectionStart, m, nodes[j]))
       /\ \A m \in SelPts, shift \in BOOLEAN :
             (HitIndexes(nodes, m) = {} /\ LeftPress(m, shift)) =>
                 /\ isBoxSelecting'
                 /\ Len(nodes') = Len(nodes)
                 /\ \A j \in 1..Len(nodes) :
                       nodes'[j].selected = (shift /\ nodes[j].selected)]_vars

\* A box opened with Shift held was completed: a node that no box of the
\* session reaches was selected before and still is, and another node was added
\* to the selection.
C23_Witness ==
    /\ lastOp = "LeftRelease"
    /\ boxSelectionStart \in SelPts
    /\ saveCount = 0
    /\ Len(nodes) = Len(preGraph.nodes)
    /\ \E i \in 1..Len(nodes) :
          /\ preGraph.nodes[i].selected /\ nodes[i].selected
          /\ \A m \in SelPts : ~RefOverlaps(boxSelectionStart, m, nodes[i])
    /\ \E j \in 1..Len(nodes) : ~preGraph.nodes[j].selected /\ nodes[j].selected

-----------------------------------------------------------------------------
(* Properties of GenerateRegex on graphs without entry and with missing
   targets (SpecLin) *)

\* No node can be the entry: none is of kind START and a connection points at
\* every one (true of the graph without nodes).
RefNoEntry(ns, cs) ==
    \A i \in 1..Len(ns) :
        /\ ns[i].type # "NODE_START"
        /\ \E k \in 1..Len(cs) : cs[k].toNodeId = ns[i].id

\* C13: GenerateRegex returns the empty string for the graph without nodes and
\* for a graph with no START node in which every node has an incoming
\* connection.
C13_AbsentEntryEmpty ==
    (phase = "done" /\ RefNoEntry(nodes, connections)) => regStr = <<>>

\* A graph with nodes, none of them an entry, was linearized.
C13_Witness ==
    /\ phase = "done"
    /\ nodes # <<>>
    /\ RefNoEntry(nodes, connections)
    /\ regStr = <<>>

\* Positions of the path p whose id no node of ns has.
RefMissingAt(ns, p) == {j \in 1..Len(p) : \A i \in 1..Len(ns) : ns[i].id # p[j]}

\* C14: when the path from the entry node comes to an id that no node has,
\* GenerateRegex returns the fragments of the nodes on the path before that id
\* and nothing more.
C14_DanglingDeadEnd ==
    (phase = "done" /\ RefEntry(nodes, connections) # 0) =>
        LET p == RefPath(connections, nodes[RefEntry(nodes, connections)].id, SafetyLimit)
            missing == RefMissingAt(nodes, p)
        IN  missing # {} => regStr = RefConcat(nodes, SubSeq(p, 1, RefMin(missing) - 1), 1)

\* C27: the ">" button moves the index to index + 1, and to 0 from the last
\* match; the "<" button moves it to index - 1, and to the last match from 0;
\* and whenever the match list is not empty, the index is a position in it,
\* also after a recomputation of the list that made it shorter.
C27_NavigationWrapsInRange ==
    [][/\ (currentDebugMatches # <<>>) =>
             (0 <= currentDebugMatchIndex /\ currentDebugMatchIndex < Len(currentDebugMatches))
       /\ (currentDebugMatches' # <<>>) =>
             (0 <= currentDebugMatchIndex' /\ currentDebugMatchIndex' < Len(currentDebugMatches'))
       /\ lastOp' = "DebugNext" =>
             currentDebugMatchIndex' =
                 IF currentDebugMatchIndex = Len(currentDebugMatches) - 1 THEN 0
                 ELSE currentDebugMatchIndex + 1
       /\ lastOp' = "DebugPrev" =>
             currentDebugMatchIndex' =
                 IF currentDebugMatchIndex = 0 THEN Len(currentDebugMatches) - 1
                 ELSE currentDebugMatchIndex - 1]_vars

\* "<" pressed on the first of three matches went to the last one.
C27_Witness ==
    /\ lastOp = "DebugPrev"
    /\ Len(currentDebugMatches) = 3
    /\ currentDebugMatchIndex = 2
    /\ stepCount = 3

\* C28: after AnalyzeMatchesForDebug ran on a pattern that is the empty string
\* or that std::regex rejects, or on a text without a match of the pattern,
\* currentDebugMatches is empty.
C28_AnalyzeDegradesToEmpty ==
    (isDebugging /\ lastOp \in {"DebugOn", "Erase", "PlaygroundType", "PlaygroundBackspace"}) =>
        /\ regStr = <<>> => currentDebugMatches = <<>>
        /\ ~ParsePattern(regStr).ok => currentDebugMatches = <<>>
        /\ (ParsePattern(regStr).ok
              /\ \A q \in 0..Len(playgroundText) :
                    MatchFrom(ParsePattern(regStr).terms, 1, playgroundText, q, -1) = -1)
           => currentDebugMatches = <<>>

-----------------------------------------------------------------------------
(* Properties of GenerateRegex as a function (SpecLin) *)

-----------------------------------------------------------------------------
(* Properties of LoadProject (SpecLoad) *)

\* The files of the three failure cases.
RefFailingFiles == {f \in LoadFiles : ~f.exists \/ ~f.opens \/ f.header # FormatHeader}

\* C30: a load command whose file is missing, cannot be opened, or does not
\* start with the format header leaves nodes, connections, nextNodeId and both
\* history stacks as they were.
C30_FailedLoadUntouched ==
    [][\A f \in RefFailingFiles :
          LoadProject(f) =>
              /\ lastOp' \in {"LoadMissing", "LoadUnopenable", "LoadBadHeader"}
              /\ nodes' = nodes /\ connections' = connections /\ nextNodeId' = nextNodeId
              /\ undoStack' = undoStack /\ redoStack' = redoStack]_vars

\* A file with another header was refused while the session held two nodes
\* and a snapshot to undo.
C30_Witness ==
    /\ lastOp = "LoadBadHeader"
    /\ Len(nodes) = 2
    /\ undoStack # <<>>

\* C31: after a load command that succeeded, every connection of the graph
\* names the ids of two nodes of the graph.
C31_LoadDropsDanglingEdges ==
    lastOp = "Load" =>
        \A i \in 1..Len(connections) :
            /\ connections[i].fromNodeId \in NodeIds(nodes)
            /\ connections[i].toNodeId \in NodeIds(nodes)

-----------------------------------------------------------------------------
(* Properties of the email template in a session (Spec) *)

RECURSIVE RefFullFrom(_, _, _, _)
\* terms[k..] can match text from offset p exactly up to the end.
RefFullFrom(terms, k, text, p) ==
    IF k > Len(terms) THEN p = Len(text)
    ELSE IF terms[k].kind = "bol" THEN p = 0 /\ RefFullFrom(terms, k + 1, text, p)
    ELSE LET run == RunLength(terms[k], text, p)
             most == IF terms[k].quant \in {"1", "?"} THEN Min(run, 1) ELSE run
             least == IF terms[k].quant \in {"1", "+"} THEN 1 ELSE 0
         IN  \E n \in least..most : RefFullFrom(terms, k + 1, text, p + n)

\* The pattern is accepted and matches the whole text.
RefFullMatch(patternStr, text) ==
    ParsePattern(patternStr).ok /\ RefFullFrom(ParsePattern(patternStr).terms, 1, text, 0)

\* C32: after the email template button the pattern of the graph is the eight
\* fragments of the template in order, and it matches a@b.c as a whole; the
\* template always appends the same kinds and fragments.
C32_EmailTemplateLinearizes ==
    [][AddTemplate("TPL_EMAIL") =>
          /\ RefKindsFrom(nodes', Len(nodes)) = RefEmailSteps
          /\ regStr' = RefJoinFrom(nodes', Len(nodes) + 1)
          /\ RefFullMatch(regStr', <<"a", "@", "b", ".", "c">>)]_vars

-----------------------------------------------------------------------------
(* Properties of connecting, editing and no-op handlers (Spec) *)

\* C33: a new connection is appended after the connections already there,
\* which keep their places; and when the graph has a START node and the source
\* already had a connection leaving it, the pattern is the same as before.
C33_ConnectNeverReplaces ==
    [][lastOp' = "Connect" =>
          /\ Len(connections') = Len(connections) + 1
          /\ SubSeq(connections', 1, Len(connections)) = connections
          /\ connections'[Len(connections')].fromNodeId = connectionStartNodeId
          /\ ((\E i \in 1..Len(nodes) : nodes[i].type = "NODE_START")
                /\ RefOutgoing(connections, connectionStartNodeId) # {})
             => regStr' = regStr]_vars

\* The START node got a second connection and the pattern is still the one
\* along the first.
C33_Witness ==
    /\ lastOp = "Connect"
    /\ Len(connections) = 2
    /\ nodes[1].type = "NODE_START"
    /\ connections[1].fromNodeId = nodes[1].id
    /\ connections[2].fromNodeId = nodes[1].id
    /\ Len(regStr) > 1

\* C34: while a text edit is in progress, the node being edited is in the graph.
C34_EditTargetExists ==
    editingNodeId # NoNode => editingNodeId \in NodeIds(nodes)

\* C35: Delete or Ctrl+X with no node selected leaves nodes, connections, the
\* undo stack and the redo stack as they were.
C35_DeleteNothingIsNoOp ==
    [][(lastOp' \in {"Delete", "DeleteEmpty", "Cut", "CutEmpty"}
          /\ \A i \in 1..Len(nodes) : ~nodes[i].selected) =>
             /\ nodes' = nodes /\ connections' = connections
             /\ undoStack' = undoStack /\ redoStack' = redoStack]_vars

-----------------------------------------------------------------------------
(* Properties of GenerateRegex on long chains (SpecChain) *)

RECURSIVE RefJoinRange(_, _, _)
\* The fragments of ns[i..last], in order, concatenated.
RefJoinRange(ns, i, last) ==
    IF i > last THEN <<>> ELSE ns[i].regexValue \o RefJoinRange(ns, i + 1, last)

\* C36: on a chain of n nodes from the entry, GenerateRegex returns the
\* fragments of all n nodes when n <= 101 and those of the first 101 nodes
\* when n > 101.
C36_StepBoundTruncation ==
    phase \in {"done", "again"} =>
        regStr = RefJoinRange(nodes, 1, Min(Len(nodes), SafetyLimit + 1))

\* A chain of 103 nodes was cut after the 101st fragment.
C36_Witness ==
    /\ phase = "done"
    /\ Len(nodes) = 103
    /\ regStr = RefJoinRange(nodes, 1, 101)
    /\ regStr # RefJoinRange(nodes, 1, 103)

-----------------------------------------------------------------------------
(* Properties of the prototype's linearizer (SpecProto) *)

\* C37: in the prototype, GenerateRegex returns on every graph its connect
\* and delete operations can build, cycles through the START node included:
\* no frame stays in the call.
C37_PrototypeLinearizerTerminates == phase # "looping"

-----------------------------------------------------------------------------
(* Properties of AddNode and the pattern (SpecLoad) *)

\* C38: when the graph holds a START node, a toolbar AddNode (the node is
\* appended last) leaves the linearized pattern as it was.
C38_AddNodeKeepsPattern ==
    [][(lastOp' = "AddNode" /\ FirstStart(nodes) # 0) => regStr' = regStr]_vars

-----------------------------------------------------------------------------
(* Properties of repeated Undo and Redo (Spec) *)

\* The graph and the two stacks.
HistOf == [cur |-> Current, undo |-> undoStack, redo |-> redoStack]

\* Undo() on the graph and stacks h.
UndoOn(h) ==
    IF h.undo = <<>> THEN h
    ELSE [cur  |-> AppState(Last(h.undo).nodes, Last(h.undo).connections,
                            RestoredNextId(Last(h.undo), h.cur.nextNodeId)),
          undo |-> PopBack(h.undo),
          redo |-> PushOpposite(h.redo, Snapshot(h.cur.nodes, h.cur.connections,
                                                 h.cur.nextNodeId))]

\* Redo() on the graph and stacks h.
RedoOn(h) ==
    IF h.redo = <<>> THEN h
    ELSE [cur  |-> AppState(Last(h.redo).nodes, Last(h.redo).connections,
                            RestoredNextId(Last(h.redo), h.cur.nextNodeId)),
          undo |-> PushOpposite(h.undo, Snapshot(h.cur.nodes, h.cur.connections,
                                                 h.cur.nextNodeId)),
          redo |-> PopBack(h.redo)]

RECURSIVE UndoTimes(_, _)
\* n consecutive Undos.
UndoTimes(h, n) == IF n = 0 THEN h ELSE UndoTimes(UndoOn(h), n - 1)

RECURSIVE RedoTimes(_, _)
\* n consecutive Redos.
RedoTimes(h, n) == IF n = 0 THEN h ELSE RedoTimes(RedoOn(h), n - 1)

\* The Ctrl+Z and Ctrl+Y handlers of the session do what UndoOn and RedoOn say.
HandlersAsOperators ==
    /\ lastOp' \in {"Undo", "UndoEmpty"} => HistOf' = UndoOn(HistOf)
    /\ lastOp' \in {"Redo", "UndoRedo", "RedoEmpty"} => HistOf' = RedoOn(HistOf)

\* C39: from every reachable state and for every n up to the depth of the undo
\* stack, n Undos followed by n Redos give back the same nodes, connections,
\* nextNodeId, undo stack and redo stack.
C39_MultiStepUndoRedoInverse ==
    /\ [](\A n \in 0..Len(undoStack) : RedoTimes(UndoTimes(HistOf, n), n) = HistOf)
    /\ [][HandlersAsOperators]_vars

\* Two recorded mutations, the second a connection, were undone and redone in
\* the session, and undoing both again would change the graph.
C39_Witness ==
    /\ lastOp \in {"Redo", "UndoRedo"}
    /\ Len(undoStack) >= 2
    /\ connections # <<>>
    /\ UndoTimes(HistOf, 2).cur # Current
    /\ UndoTimes(HistOf, 2).undo # UndoTimes(HistOf, 1).undo

-----------------------------------------------------------------------------
(* Properties of pasting from an empty clipboard (Spec) *)

\* C40: Ctrl+V with an empty clipboard records no snapshot, keeps the redo
\* stack, and leaves nodes (their selection included), connections and
\* nextNodeId as they were.
C40_PasteEmptyIsNoOp ==
    [][(\E m \in MousePts : PasteFromClipboard(m)) /\ clipboard.nodes = <<>>
          => /\ UNCHANGED <<nodes, connections, nextNodeId, undoStack, redoStack>>
             /\ saveCount' = saveCount]_vars

\* Ctrl+V with an empty clipboard ran while a node was selected and both
\* stacks held snapshots.
C40_Witness ==
    /\ lastOp = "PasteEmpty"
    /\ clipboard.nodes = <<>>
    /\ redoStack # <<>>
    /\ undoStack # <<>>
    /\ \E i \in 1..Len(nodes) : nodes[i].selected

====
